---- MODULE Spec2Model ----
(***************************************************************************)
(* A model of the zigbee-adapter capability classifier                     *)
(* (src/src/zb-classifier.js), of the thermostat constraint hooks it wires *)
(* (addThermostatProperties) and of the zigbee2mqtt expose properties      *)
(* (src/unnamed/part_000).                                                 *)
(*                                                                         *)
(* Four specifications share the module:                                   *)
(*   Spec        - devices are discovered feature by feature and then      *)
(*                 classified by the one shared classifier object;         *)
(*   ThermoSpec  - value updates arrive at the properties of one           *)
(*                 classified thermostat, each with its hook chain;        *)
(*   ExposeSpec  - updates and writes on the expose properties of one      *)
(*                 zigbee2mqtt device;                                     *)
(*   RoundTripSpec - a reported brightness or color temperature is written *)
(*                 back to the device.                                     *)
(***************************************************************************)
EXTENDS Integers, Sequences, FiniteSets, TLC

VARIABLES
  feats,      \* the capability descriptor discovered so far (a set of features)
  node,       \* the device object handed to classify (descriptor + result)
  zoneTags,   \* ZONE_TYPE_NAME[code]['@type']: the arrays of the shared table
  phase,      \* "discover" | "classified"
  th,         \* thermostat: per property its value, minimum and maximum
  xp,         \* expose path: the cached value of each expose property
  xcall,      \* expose path: the setValue call in progress / last completed
  xpublished, \* expose path: every message handed to client.publish, in order
  xupd        \* expose path: the outcome of the last update() call

vars == <<feats, node, zoneTags, phase, th, xp, xcall, xpublished, xupd>>

classVars  == <<feats, node, zoneTags, phase>>
thermoVars == <<th>>
exposeVars == <<xp, xcall, xpublished, xupd>>

(***************************************************************************)
(* Bounds of the exploration.                                              *)
(***************************************************************************)
\* Endpoints 1..NumEndpoints may be discovered on a device.
NumEndpoints == 2
\* Any combination of up to MaxFree features is explored.
MaxFree == 2
\* Combinations of up to MaxDiscovery features are explored inside a family.
MaxDiscovery == 4

Endpoints == 1..NumEndpoints

(***************************************************************************)
(* Program constants.                                                      *)
(***************************************************************************)
ZONE_TYPE_MOTION == 13
ZONE_TYPE_SWITCH == 21
\* The SmartThings button's zone type, 0x8000.
ZONE_TYPE_BUTTON == 32768

\* PROFILE_ID.ZHA / PROFILE_ID.ZLL as numbers, ZHA_HEX / ZLL_HEX as strings.
PROFILE_ZHA == 260
PROFILE_ZLL == 49246

\* parseInt(profileId, 16) on the two hex strings an endpoint can carry.
parseProfileId(hex) ==
  CASE hex = "0104" -> PROFILE_ZHA
    [] hex = "c05e" -> PROFILE_ZLL
    [] OTHER -> 0

\* COLOR_CAPABILITY bits.
CC_HUE_SAT == 1
CC_ENHANCED_HUE == 2
CC_XY == 8
CC_TEMPERATURE == 16

\* x & bit for a single-bit mask.
HasBit(x, bit) == (x \div bit) % 2 = 1

\* colorCapabilities & COLOR_CAPABILITY.COLOR (hue/sat, enhanced hue or xy).
HasColorBits(x) == HasBit(x, CC_HUE_SAT) \/ HasBit(x, CC_ENHANCED_HUE) \/ HasBit(x, CC_XY)

\* x | bit for a single-bit mask.
OrBit(x, bit) == IF HasBit(x, bit) THEN x ELSE x + bit

(***************************************************************************)
(* Device-type codes.                                                      *)
(***************************************************************************)
ZHA_isLight(id) == id \in {"0100", "0101", "0102", "010c", "010d"}
ZHA_isColorLight(id) == id \in {"0102", "010d"}
ZHA_isColorTemperatureLight(id) == id = "010c"
ZLL_isLight(id) == id \in {"0000", "0100", "0200", "0210", "0220"}
ZLL_isColorLight(id) == id \in {"0200", "0210"}
ZLL_isColorTemperatureLight(id) == id = "0220"
ZLL_ON_OFF_SWITCH == "0010"
ZHA_ON_OFF_SWITCH == "0000"
ZHA_ON_OFF_OUTPUT == "0002"

(***************************************************************************)
(* The shared zone-type table ZONE_TYPE_NAME. Its '@type' arrays are the   *)
(* variable zoneTags: classification hands them out by reference.          *)
(***************************************************************************)
ZoneCodes == {13, 21, 40, 42, 43, 44, 45, 271, 277, 541, 550}

ZONE_TYPE_NAME ==
  [c \in ZoneCodes |->
    CASE c = 13  -> [type |-> "motion-sensor", tags |-> <<"MotionSensor">>,
                     propertyName |-> "motion", atType |-> "MotionProperty"]
      [] c = 21  -> [type |-> "door-sensor", tags |-> <<"DoorSensor">>,
                     propertyName |-> "open", atType |-> "OpenProperty"]
      [] c = 40  -> [type |-> "smoke-sensor", tags |-> <<"SmokeSensor">>,
                     propertyName |-> "on", atType |-> "SmokeProperty"]
      [] c = 42  -> [type |-> "leak-sensor", tags |-> <<"LeakSensor">>,
                     propertyName |-> "on", atType |-> "LeakProperty"]
      [] c = 43  -> [type |-> "co-sensor", tags |-> <<"BinarySensor">>,
                     propertyName |-> "on", atType |-> "BooleanProperty"]
      [] c = 44  -> [type |-> "ped-button", tags |-> <<"PushButton">>,
                     propertyName |-> "pushed", atType |-> "PushedProperty"]
      [] c = 45  -> [type |-> "vibration-sensor", tags |-> <<"BinarySensor">>,
                     propertyName |-> "on", atType |-> "BooleanProperty"]
      [] c = 271 -> [type |-> "remote-button", tags |-> <<"PushButton">>,
                     propertyName |-> "pushed", atType |-> "PushedProperty"]
      [] c = 277 -> [type |-> "keyfob-button", tags |-> <<"PushButton">>,
                     propertyName |-> "pushed", atType |-> "PushedProperty"]
      [] c = 541 -> [type |-> "keypad-button", tags |-> <<"PushButton">>,
                     propertyName |-> "pushed", atType |-> "PushedProperty"]
      [] OTHER   -> [type |-> "glass-sensor", tags |-> <<"BinarySensor">>,
                     propertyName |-> "on", atType |-> "BooleanProperty"]]

\* The '@type' arrays of the table as the source file writes them.
ZoneTagsInit == [c \in ZoneCodes |-> ZONE_TYPE_NAME[c].tags]

\* ZONE_TYPE_ZERO: the model ids that disambiguate zone type 0.
ZONE_TYPE_ZERO_has(modelId) == modelId \in {"multiv4", "motionv4", "motionv5"}
ZONE_TYPE_ZEROMutantMotion(modelId) == ZONE_TYPE_MOTION
ZONE_TYPE_ZERO(modelId) == IF modelId = "multiv4" THEN ZONE_TYPE_SWITCH ELSE ZONE_TYPE_MOTION

(***************************************************************************)
(* Sequence helpers.                                                       *)
(***************************************************************************)
SeqIncludes(s, x) == \E i \in 1..Len(s) : s[i] = x

RECURSIVE AscendingSeq(_)
\* The members of a set of endpoint numbers in ascending order.
AscendingSeq(S) ==
  IF S = {} THEN <<>>
  ELSE LET m == CHOOSE x \in S : \A y \in S : x <= y
       IN <<m>> \o AscendingSeq(S \ {m})

(***************************************************************************)
(* The capability descriptor, as a set of discovered features.             *)
(* A feature is [k, ep, v, n]: its kind, the endpoint it belongs to (0 for *)
(* a device-level feature), and its value as a string (v) or a number (n). *)
(***************************************************************************)
Feature(k, ep, v, n) == [k |-> k, ep |-> ep, v |-> v, n |-> n]

InputClusters ==
  {"SEMETERING", "HAELECTRICAL", "GENBINARYINPUT", "GENLEVELCTRL", "GENONOFF",
   "DOORLOCK", "OCCUPANCY_SENSOR", "TEMPERATURE", "HVACTHERMOSTAT", "HVACFANCTRL",
   "ILLUMINANCE_MEASUREMENT", "GENPOWERCFG", "GENDEVICETEMPCFG", "LIGHTLINK",
   "SSIASZONE", "HVACUSERINTERFACECFG"}

OutputClusters == {"GENLEVELCTRL", "GENONOFF", "GENSCENES"}

\* The device-type code of an endpoint nobody set: a ZHA smart plug.
DefaultDeviceId == "0051"
DeviceIds == {"0000", "0002", "000b", "0010", "0100", "0102", "010c", "0200", "0220", "0820"}

ModelIds == {"multiv4", "motionv4", "1116-S", "TRADFRI remote control",
             "TRADFRI motion sensor", "3130", "RWL020", "RC 110"}

ZoneTypeInputs == {0, 13, 40, 32768, 153}
ColorCapabilityInputs == {0, 1, 8, 16, 24}
PowerSourceInputs == {1, 3, 128}
DevInfoLabels == {"onMatch", "onStale", "thermostat"}

AllFeatures ==
  {Feature("in", ep, c, 0) : ep \in Endpoints, c \in InputClusters}
  \cup {Feature("out", ep, c, 0) : ep \in Endpoints, c \in OutputClusters}
  \cup {Feature("deviceId", ep, d, 0) : ep \in Endpoints, d \in DeviceIds}
  \cup {Feature("profileId", ep, "c05e", 0) : ep \in Endpoints}
  \cup {Feature("modelId", 0, m, 0) : m \in ModelIds}
  \cup {Feature("zoneType", 0, "", z) : z \in ZoneTypeInputs}
  \cup {Feature("colorCapabilities", 0, "", c) : c \in ColorCapabilityInputs}
  \cup {Feature("lightingColorCtrlEndpoint", ep, "", 0) : ep \in Endpoints}
  \cup {Feature("powerSource", 0, "", p) : p \in PowerSourceInputs}
  \cup {Feature("devInfo", 0, l, 0) : l \in DevInfoLabels}
  \cup {Feature("showAging", 0, "", 0), Feature("isCoordinator", 0, "", 0)}

\* A device has one value of each of these per endpoint (or per device).
SingleValued == {"deviceId", "profileId", "modelId", "zoneType", "colorCapabilities",
                 "lightingColorCtrlEndpoint", "powerSource", "devInfo"}

Conflicts(f, fs) ==
  \E g \in fs : /\ g.k = f.k
                /\ f.k \in SingleValued
                /\ (g.ep = f.ep \/ f.k = "lightingColorCtrlEndpoint")

(***************************************************************************)
(* Families: the feature combinations explored beyond MaxFree features.    *)
(***************************************************************************)
FamilySensor ==
  {Feature("in", 1, c, 0) : c \in {"SSIASZONE", "TEMPERATURE", "GENDEVICETEMPCFG",
                                    "GENPOWERCFG", "OCCUPANCY_SENSOR"}}
  \cup {Feature("zoneType", 0, "", z) : z \in {0, 13, 40}}
  \cup {Feature("modelId", 0, m, 0) : m \in {"multiv4", "motionv4"}}
  \cup {Feature("powerSource", 0, "", p) : p \in {3, 128}}
  \cup {Feature("showAging", 0, "", 0)}

FamilyLight ==
  {Feature("in", 1, "GENLEVELCTRL", 0), Feature("in", 1, "LIGHTLINK", 0),
   Feature("in", 2, "LIGHTLINK", 0), Feature("profileId", 1, "c05e", 0),
   Feature("lightingColorCtrlEndpoint", 1, "", 0)}
  \cup {Feature("deviceId", 1, d, 0) : d \in {"0100", "0102", "010c"}}
  \cup {Feature("deviceId", 2, d, 0) : d \in {"0010", "0200", "0220"}}
  \cup {Feature("colorCapabilities", 0, "", c) : c \in {8, 16}}

FamilyButton ==
  {Feature("out", ep, c, 0) : ep \in {1, 2} \cap Endpoints, c \in {"GENLEVELCTRL", "GENONOFF"}}
  \cup {Feature("out", 1, "GENSCENES", 0), Feature("deviceId", 1, "0820", 0)}
  \cup {Feature("modelId", 0, m, 0) :
          m \in {"TRADFRI remote control", "TRADFRI motion sensor", "3130", "RWL020", "RC 110"}}

FamilyHvac ==
  {Feature("in", 1, c, 0) : c \in {"HVACTHERMOSTAT", "HVACFANCTRL", "HVACUSERINTERFACECFG",
                                    "GENLEVELCTRL", "TEMPERATURE", "GENONOFF",
                                    "OCCUPANCY_SENSOR", "DOORLOCK", "GENBINARYINPUT"}}
  \cup {Feature("in", 2, "GENONOFF", 0), Feature("deviceId", 1, "000b", 0)}
  \cup {Feature("devInfo", 0, l, 0) : l \in DevInfoLabels}

FamilyPlug ==
  {Feature("in", 1, c, 0) : c \in {"HAELECTRICAL", "SEMETERING", "GENLEVELCTRL",
                                    "LIGHTLINK", "GENONOFF"}}
  \cup {Feature("deviceId", 1, d, 0) : d \in {"0000", "0002", "0100"}}
  \cup {Feature("lightingColorCtrlEndpoint", 1, "", 0), Feature("profileId", 1, "c05e", 0)}

Families == {FamilySensor, FamilyLight, FamilyButton, FamilyHvac, FamilyPlug}

\* The feature sets the discovery may build.
Explored(fs) ==
  \/ Cardinality(fs) <= MaxFree
  \/ Cardinality(fs) <= MaxDiscovery /\ \E fam \in Families : fs \subseteq fam

(***************************************************************************)
(* The device object built from a descriptor.                              *)
(***************************************************************************)
HasFeature(fs, k, ep) == \E f \in fs : f.k = k /\ f.ep = ep
TheFeature(fs, k, ep) == CHOOSE f \in fs : f.k = k /\ f.ep = ep

endpointOf(fs, ep) ==
  [exists |-> \E f \in fs : f.ep = ep,
   profileId |-> IF HasFeature(fs, "profileId", ep) THEN "c05e" ELSE "0104",
   deviceId |-> IF HasFeature(fs, "deviceId", ep)
                THEN TheFeature(fs, "deviceId", ep).v ELSE DefaultDeviceId,
   inputClusters |-> {f.v : f \in {g \in fs : g.k = "in" /\ g.ep = ep}},
   outputClusters |-> {f.v : f \in {g \in fs : g.k = "out" /\ g.ep = ep}}]

\* The persisted snapshots (devInfoProperties) a device may come with.
NoDevInfo == [x \in {} |-> [endpoint |-> 0]]

\* An enum of a description or of a snapshot: has is hasOwnProperty('enum').
NoEnum == [has |-> FALSE, list |-> <<>>]
Enum(list) == [has |-> TRUE, list |-> list]

\* One persisted property: its binding, fireAndForget and value; minimum,
\* maximum and enum are own properties of the snapshot only when it has them.
Snapshot(endpoint, clusterId, attr, value) ==
  [endpoint |-> endpoint, profileId |-> PROFILE_ZHA, clusterId |-> clusterId,
   attr |-> attr, fireAndForget |-> FALSE, value |-> value,
   hasMinimum |-> FALSE, minimum |-> "undefined",
   hasMaximum |-> FALSE, maximum |-> "undefined", enum |-> NoEnum]

\* "onMatch" is the snapshot of 'on' on endpoint 1 and "onStale" that of 'on'
\* on endpoint 2. "thermostat" holds 'mode' and 'fanMode' as a thermostat on
\* endpoint 1 binds them, and 'temperature', 'hold' and 'runMode' with another
\* cluster, profile and attribute than it binds them to.
devInfoOf(label) ==
  CASE label = "onMatch" ->
         [x \in {"on"} |->
            [Snapshot(1, "GENONOFF", "onOff", "true") EXCEPT !.fireAndForget = TRUE]]
    [] label = "onStale" ->
         [x \in {"on"} |->
            [Snapshot(2, "GENONOFF", "onOff", "true") EXCEPT
               !.fireAndForget = TRUE,
               !.hasMinimum = TRUE, !.minimum = "0",
               !.hasMaximum = TRUE, !.maximum = "1"]]
    [] label = "thermostat" ->
         [x \in {"mode", "fanMode", "temperature", "hold", "runMode"} |->
            CASE x = "mode" ->
                   [Snapshot(1, "HVACTHERMOSTAT", "systemMode", "heat") EXCEPT
                      !.enum = Enum(<<"off", "heat">>)]
              [] x = "fanMode" ->
                   [Snapshot(1, "HVACFANCTRL", "fanMode", "auto") EXCEPT
                      !.enum = Enum(<<"low", "auto">>)]
              [] x = "temperature" ->
                   [Snapshot(1, "TEMPERATURE", "localTemp", "21") EXCEPT
                      !.hasMinimum = TRUE, !.minimum = "5",
                      !.hasMaximum = TRUE, !.maximum = "30"]
              [] x = "hold" ->
                   [Snapshot(1, "HVACTHERMOSTAT", "tempSetpointHold", "true") EXCEPT
                      !.profileId = PROFILE_ZLL]
              [] OTHER -> Snapshot(1, "HVACTHERMOSTAT", "systemMode", "heat")]
    [] OTHER -> NoDevInfo

NoProperties == [x \in {} |-> [endpoint |-> 0]]

\* The device object before classify: the descriptor and nothing inferred.
nodeOf(fs) ==
  [activeEndpoints |-> [ep \in Endpoints |-> endpointOf(fs, ep)],
   modelId |-> IF HasFeature(fs, "modelId", 0) THEN TheFeature(fs, "modelId", 0).v ELSE "",
   hasZoneType |-> HasFeature(fs, "zoneType", 0),
   zoneType |-> IF HasFeature(fs, "zoneType", 0) THEN TheFeature(fs, "zoneType", 0).n ELSE 0,
   hasColorCapabilities |-> HasFeature(fs, "colorCapabilities", 0),
   colorCapabilities |-> IF HasFeature(fs, "colorCapabilities", 0)
                         THEN TheFeature(fs, "colorCapabilities", 0).n ELSE 0,
   lightingColorCtrlEndpoint |-> IF \E f \in fs : f.k = "lightingColorCtrlEndpoint"
                                 THEN (CHOOSE f \in fs : f.k = "lightingColorCtrlEndpoint").ep
                                 ELSE 0,
   powerSource |-> IF HasFeature(fs, "powerSource", 0)
                   THEN TheFeature(fs, "powerSource", 0).n ELSE 0,
   showAging |-> HasFeature(fs, "showAging", 0),
   isCoordinator |-> HasFeature(fs, "isCoordinator", 0),
   devInfoProperties |-> IF HasFeature(fs, "devInfo", 0)
                         THEN devInfoOf(TheFeature(fs, "devInfo", 0).v) ELSE NoDevInfo,
   \* what classify infers
   type |-> "undefined",
   hasTags |-> FALSE,      \* node.hasOwnProperty('@type')
   tagsRef |-> 0,          \* 0: node['@type'] is an array of its own;
                           \* c: it is the array ZONE_TYPE_NAME[c]['@type']
   ownTags |-> <<>>,
   properties |-> NoProperties,
   events |-> {},
   actions |-> {},
   name |-> "",
   onOffProperty |-> "",
   ssIasZoneEndpoint |-> 0,
   inits |-> <<>>,         \* the archetype initializers entered, in order
   raised |-> FALSE,       \* classify ended by a TypeError
   zt |-> ZoneTagsInit]    \* the table's arrays while classify runs

(***************************************************************************)
(* zb-node lookups.                                                        *)
(***************************************************************************)
IsZhaEndpoint(n, ep) ==
  n.activeEndpoints[ep].exists /\ n.activeEndpoints[ep].profileId \in {"0104", "c05e"}

\* All ZHA/ZLL endpoints with the input cluster, in endpoint order.
findZhaEndpointsWithInputClusterIdHex(n, cluster) ==
  AscendingSeq({ep \in Endpoints :
                  IsZhaEndpoint(n, ep) /\ cluster \in n.activeEndpoints[ep].inputClusters})

\* The first such endpoint; 0 stands for undefined.
findZhaEndpointWithInputClusterIdHex(n, cluster) ==
  LET eps == findZhaEndpointsWithInputClusterIdHex(n, cluster)
  IN IF eps = <<>> THEN 0 ELSE eps[1]

\* All ZHA/ZLL endpoints with the output cluster, in endpoint order (an array,
\* although the method's name is singular).
findZhaEndpointWithOutputClusterIdHex(n, cluster) ==
  AscendingSeq({ep \in Endpoints :
                  IsZhaEndpoint(n, ep) /\ cluster \in n.activeEndpoints[ep].outputClusters})

isBatteryPowered(n) == n.powerSource = 3
isMainsPowered(n) == n.powerSource # 0 /\ n.powerSource # 3

(***************************************************************************)
(* The property factory.                                                   *)
(***************************************************************************)
Descr(atType, type, readOnly, minimum, maximum) ==
  [atType |-> atType, type |-> type, readOnly |-> readOnly,
   minimum |-> minimum, maximum |-> maximum, enum |-> NoEnum]

\* A description with an enum of its own.
DescrEnum(descr, list) == [descr EXCEPT !.enum = Enum(list)]

\* new ZigbeeProperty(...): the fields the classifier reads or writes later.
ZigbeeProperty(descr, profileId, endpoint, clusterId, attr) ==
  [profileId |-> profileId, endpoint |-> endpoint, clusterId |-> clusterId, attr |-> attr,
   atType |-> descr.atType, type |-> descr.type, readOnly |-> descr.readOnly,
   minimum |-> descr.minimum, maximum |-> descr.maximum, enum |-> descr.enum,
   value |-> "undefined", defaultValue |-> "undefined",
   visible |-> TRUE, fireAndForget |-> FALSE,
   configReportNeeded |-> FALSE, configReport |-> "",
   bindNeeded |-> FALSE, initialReadNeeded |-> FALSE,
   mask |-> "", buttonIndex |-> 0,
   maker |-> ""]   \* the add* helper that made it (bookkeeping only)

\* node.properties.set(name, property)
setProperty(n, name, property) ==
  [n EXCEPT !.properties =
     [x \in DOMAIN n.properties \cup {name} |->
        IF x = name THEN property ELSE n.properties[x]]]

\* Lines 1890-1917: the state copied from a matching persisted snapshot.
\* The mutant does not compare the endpoints.
rehydrateMutantAnyEndpoint(n, name, property) ==
  IF name \in DOMAIN n.devInfoProperties
  THEN LET devInfo == n.devInfoProperties[name]
       IN IF /\ property.profileId = devInfo.profileId
             /\ property.clusterId = devInfo.clusterId
             /\ property.attr = devInfo.attr
          THEN [property EXCEPT
                  !.fireAndForget = devInfo.fireAndForget,
                  !.value = devInfo.value,
                  !.minimum = IF devInfo.hasMinimum THEN devInfo.minimum ELSE @,
                  !.maximum = IF devInfo.hasMaximum THEN devInfo.maximum ELSE @]
          ELSE property
  ELSE property

rehydrate(n, name, property) ==
  IF name \in DOMAIN n.devInfoProperties
  THEN LET devInfo == n.devInfoProperties[name]
       IN IF /\ property.endpoint = devInfo.endpoint
             /\ property.profileId = devInfo.profileId
             /\ property.clusterId = devInfo.clusterId
             /\ property.attr = devInfo.attr
          THEN [property EXCEPT
                  !.fireAndForget = devInfo.fireAndForget,
                  !.value = devInfo.value,
                  !.minimum = IF devInfo.hasMinimum THEN devInfo.minimum ELSE @,
                  !.maximum = IF devInfo.hasMaximum THEN devInfo.maximum ELSE @,
                  !.enum = IF devInfo.enum.has /\ @.has /\ @.list = <<>>
                           THEN devInfo.enum ELSE @]
          ELSE property
  ELSE property

\* Lines 1924-1932: the reporting requirement.
reportingMutantAlwaysConfig(property, configReport, attr) ==
  IF configReport # "" /\ attr # ""
  THEN [property EXCEPT !.configReportNeeded = TRUE, !.configReport = configReport]
  ELSE [property EXCEPT !.configReportNeeded = FALSE, !.fireAndForget = TRUE]

\* Lines 1924-1932 without the else branch that forces fireAndForget.
reportingMutantNoForce(property, configReport, attr) ==
  IF configReport # "" /\ attr # "" /\ ~property.fireAndForget
  THEN [property EXCEPT !.configReportNeeded = TRUE, !.configReport = configReport]
  ELSE [property EXCEPT !.configReportNeeded = FALSE]

reporting(property, configReport, attr) ==
  IF configReport # "" /\ attr # "" /\ ~property.fireAndForget
  THEN [property EXCEPT !.configReportNeeded = TRUE, !.configReport = configReport]
  ELSE [property EXCEPT !.configReportNeeded = FALSE, !.fireAndForget = TRUE]

\* Line 1942: property.bindNeeded = property.configReportNeeded.
bindFlagMutantAlways(property) == [property EXCEPT !.bindNeeded = TRUE]

bindFlag(property) == [property EXCEPT !.bindNeeded = property.configReportNeeded]

\* Lines 1934-1939: names with the private prefix are invisible.
\* name[0] == '_' on the names the classifier gives its properties.
startsWithUnderscore(name) ==
  name \in {"_level", "_minTemperature", "_maxTemperature", "_lockedInterntal",
            "_currentMul", "_currentDiv", "_powerMul", "_powerDiv", "_voltageMul",
            "_voltageDiv", "_counterMul", "_counterDiv", "_multiplier", "_divisor",
            "_minIlluminance", "_maxIlluminance", "_minTemp", "_maxTemp", "_deadband",
            "_absMaxHeatTarget", "_absMinHeatTarget", "_maxHeatTarget", "_minHeatTarget",
            "_absMaxCoolTarget", "_absMinCoolTarget", "_maxCoolTarget", "_minCoolTarget",
            "_fanModeSeq"}

visibilityMutantNever(property, name) == property

visibilityMutantHidden(property, name) == [property EXCEPT !.visible = FALSE]

visibility(property, name) ==
  IF startsWithUnderscore(name) THEN [property EXCEPT !.visible = FALSE] ELSE property

\* addProperty. profileId is the number (callers that pass an endpoint's hex
\* string pass parseProfileId of it); configReport is "" when none is given.
addProperty(n, name, descr, profileId, endpoint, clusterId, attr, configReport, defaultValue, maker) ==
  LET isZll == profileId = PROFILE_ZLL
      p0 == ZigbeeProperty(descr, IF isZll THEN PROFILE_ZHA ELSE profileId,
                           endpoint, clusterId, attr)
      p1 == rehydrate(n, name, p0)
      p2 == IF isZll THEN [p1 EXCEPT !.fireAndForget = TRUE] ELSE p1
      p3 == reporting(p2, configReport, attr)
      p4 == visibility(p3, name)
      p5 == [p4 EXCEPT !.initialReadNeeded = TRUE, !.defaultValue = defaultValue,
                       !.maker = maker]
      p6 == bindFlag(p5)
  IN setProperty(n, name, p6)

\* A change of one field of a property addProperty returned.
setField(n, name, field, val) ==
  [n EXCEPT !.properties[name] = [f \in DOMAIN @ |-> IF f = field THEN val ELSE @[f]]]

\* A TypeError: classify ends where it is.
raise(n) == [n EXCEPT !.raised = TRUE]

\* activeEndpoints[ep] is an object (not undefined).
endpointDefined(n, ep) == ep \in Endpoints /\ n.activeEndpoints[ep].exists

endpointProfile(n, ep) == parseProfileId(n.activeEndpoints[ep].profileId)

\* The '@type' array the device refers to.
tagsOf(n) == IF n.tagsRef = 0 THEN n.ownTags ELSE n.zt[n.tagsRef]

\* node['@type'] = [...]: a fresh array of the device's own.
setTags(n, tags) == [n EXCEPT !.hasTags = TRUE, !.tagsRef = 0, !.ownTags = tags]

\* node['@type'].push(tag): into whichever array the device refers to.
pushTag(n, tag) ==
  IF n.tagsRef = 0
  THEN [n EXCEPT !.ownTags = Append(@, tag)]
  ELSE [n EXCEPT !.zt[n.tagsRef] = Append(@, tag)]

addEvents(n, names) == [n EXCEPT !.events = @ \cup names]
addActions(n, names) == [n EXCEPT !.actions = @ \cup names]

(***************************************************************************)
(* The add* helpers. U stands for an absent description field.             *)
(***************************************************************************)
U == "undefined"
ZHA == PROFILE_ZHA

\* `on${suffix}` and friends: idx 0 gives no suffix.
suffixOf(idx) == IF idx = 0 THEN "" ELSE ToString(idx)

levelDescr(atType, readOnly) == Descr(atType, "number", readOnly, "0", "100")
hiddenNumber(readOnly) == Descr("", "number", readOnly, U, U)

addLevelPair(n, ep, colorAttr) ==
  LET n1 == addProperty(n, "_level", levelDescr("", FALSE), endpointProfile(n, ep), ep,
                        "GENLEVELCTRL", "currentLevel", "", U, "addColorProperty")
  IN addProperty(n1, "color", Descr("ColorProperty", "string", FALSE, U, U),
                 endpointProfile(n, ep), ep, "LIGHTINGCOLORCTRL", colorAttr, "", U,
                 "addColorProperty")

\* Lines 255-291 with the attribute pair of addColorXYProperty.
addColorPropertyMutantXY(n, ep) ==
  IF ~endpointDefined(n, ep) THEN raise(n)
  ELSE addLevelPair(n, ep, "currentX,currentY")

\* Lines 255-291. The endpoint object is read before the first addProperty.
addColorProperty(n, ep) ==
  IF ~endpointDefined(n, ep) THEN raise(n)
  ELSE addLevelPair(n, ep, "currentHue,currentSaturation")

\* Lines 293-329.
addColorXYProperty(n, ep) ==
  IF ~endpointDefined(n, ep) THEN raise(n)
  ELSE addLevelPair(n, ep, "currentX,currentY")

\* Lines 331-387. ep may be undefined: it is only stored.
addColorTemperatureProperty(n, ep) ==
  LET n1 == addProperty(n, "_minTemperature", hiddenNumber(FALSE), ZHA, ep,
                        "LIGHTINGCOLORCTRL", "colorTempPhysicalMin", "", "153",
                        "addColorTemperatureProperty")
      n2 == addProperty(n1, "_maxTemperature", hiddenNumber(FALSE), ZHA, ep,
                        "LIGHTINGCOLORCTRL", "colorTempPhysicalMax", "", "370",
                        "addColorTemperatureProperty")
  IN addProperty(n2, "colorTemperature",
                 Descr("ColorTemperatureProperty", "number", FALSE, U, U), ZHA, ep,
                 "LIGHTINGCOLORCTRL", "colorTemperature", "", "370",
                 "addColorTemperatureProperty")

\* Lines 389-412.
addBrightnessProperty(n, ep) ==
  IF ~endpointDefined(n, ep) THEN raise(n)
  ELSE addProperty(n, "level", levelDescr("BrightnessProperty", FALSE),
                   endpointProfile(n, ep), ep, "GENLEVELCTRL", "currentLevel",
                   "CONFIG_REPORT_INTEGER", U, "addBrightnessProperty")

\* Lines 435-437 and 1265-1267.
pushTemperatureSensorMutantAlways(n) == pushTag(n, "TemperatureSensor")

pushTemperatureSensor(n) ==
  IF ~SeqIncludes(tagsOf(n), "TemperatureSensor") THEN pushTag(n, "TemperatureSensor") ELSE n

\* Lines 414-438.
addDeviceTemperatureProperty(n, ep) ==
  pushTemperatureSensor(
    addProperty(n, "temperature", Descr("TemperatureProperty", "number", TRUE, U, U),
                ZHA, ep, "GENDEVICETEMPCFG", "currentTemperature",
                "CONFIG_REPORT_INTEGER", U, "addDeviceTemperatureProperty"))

\* Lines 440-463.
addLevelProperty(n, ep) ==
  IF ~endpointDefined(n, ep) THEN raise(n)
  ELSE addProperty(n, "level", levelDescr("LevelProperty", FALSE),
                   endpointProfile(n, ep), ep, "GENLEVELCTRL", "currentLevel",
                   "CONFIG_REPORT_INTEGER", U, "addLevelProperty")

\* if (typeof property.value === 'undefined') property.value = dflt
defaultIfUndefined(n, name, dflt) ==
  IF n.properties[name].value = U THEN setField(n, name, "value", dflt) ELSE n

\* if (!node.onOffProperty) node.onOffProperty = property
firstOnOffProperty(n, name) ==
  IF n.onOffProperty = "" THEN [n EXCEPT !.onOffProperty = name] ELSE n

\* Lines 487-497: the ORVIBO relay (deviceId 000b) gets no config reports.
orviboMutantAlso(n, ep, name) ==
  IF n.activeEndpoints[ep].deviceId = "000b"
  THEN setField(setField(n, name, "fireAndForget", TRUE), name, "configReportNeeded", FALSE)
  ELSE n

orvibo(n, ep, name) ==
  IF n.activeEndpoints[ep].deviceId = "000b"
  THEN setField(n, name, "fireAndForget", TRUE)
  ELSE n

\* Lines 465-505.
addOnProperty(n, ep, suffix) ==
  IF ~endpointDefined(n, ep) THEN raise(n)
  ELSE LET name == "on" \o suffix
           n1 == addProperty(n, name,
                             Descr(IF suffix # "" THEN "BooleanProperty" ELSE "OnOffProperty",
                                   "boolean", FALSE, U, U),
                             endpointProfile(n, ep), ep, "GENONOFF", "onOff",
                             "CONFIG_REPORT_INTEGER", U, "addOnProperty")
       IN firstOnOffProperty(defaultIfUndefined(orvibo(n1, ep, name), name, "false"), name)

\* Lines 528, 565, 596: the button helpers ask for a binding themselves.
buttonBindMutantNone(n, name) == n

buttonBind(n, name) == setField(n, name, "bindNeeded", TRUE)

\* Lines 507-538.
addButtonOnProperty(n, ep, suffix) ==
  LET name == "on" \o suffix
      n1 == addProperty(n, name, Descr("BooleanProperty", "boolean", TRUE, U, U),
                        ZHA, ep, "GENONOFF", "", "", U, "addButtonOnProperty")
  IN firstOnOffProperty(defaultIfUndefined(buttonBind(n1, name), name, "false"), name)

\* Lines 540-572.
addButtonLevelProperty(n, ep, suffix) ==
  LET name == "level" \o suffix
      n1 == addProperty(n, name, levelDescr("LevelProperty", TRUE),
                        ZHA, ep, "GENLEVELCTRL", "", "", U, "addButtonLevelProperty")
  IN defaultIfUndefined(buttonBind(n1, name), name, "0")

\* Lines 574-603.
addButtonMotionProperty(n, ep, suffix) ==
  LET name == "motion" \o suffix
      n1 == addProperty(n, name, Descr("MotionProperty", "boolean", TRUE, U, U),
                        ZHA, ep, "GENONOFF", "", "", U, "addButtonMotionProperty")
  IN defaultIfUndefined(buttonBind(n1, name), name, "false")

\* Lines 605-633. No snapshot in the model carries a number for 'scene', so the
\* value is not a number after addProperty.
addButtonSceneProperty(n, ep) ==
  LET n1 == addProperty(n, "scene", Descr("LevelProperty", "integer", TRUE, "0", "15"),
                        ZHA, ep, "GENSCENES", "", "", U, "addButtonSceneProperty")
  IN setField(setField(n1, "scene", "bindNeeded", FALSE), "scene", "value", "0")

\* Lines 635-711. The visible 'locked' state follows the hidden boolean; the
\* first doorLockProperty.updated() runs during classification.
addDoorLockedProperty(n, ep) ==
  LET n1 == addProperty(n, "_lockedInterntal", Descr("BooleanProperty", "boolean", FALSE, U, U),
                        ZHA, ep, "DOORLOCK", "lockState", "CONFIG_REPORT_INTEGER", U,
                        "addDoorLockedProperty")
      n2 == addProperty(n1, "locked",
                        DescrEnum(Descr("LockedProperty", "string", TRUE, U, U),
                                  <<"locked", "unlocked", "jammed", "unknown">>),
                        0, 0, "0", "", "", U, "addDoorLockedProperty")
      n3 == setField(n2, "locked", "value", "unlocked")
  IN addActions(addEvents(n3, {"DoorLockEvent"}), {"lock", "unlock"})

\* Lines 713-732.
addPresentValueProperty(n, ep) ==
  addProperty(n, "on", Descr("BooleanProperty", "boolean", TRUE, U, U), ZHA, ep,
              "GENBINARYINPUT", "presentValue", "CONFIG_REPORT_INTEGER", U,
              "addPresentValueProperty")

\* A hidden multiplier/divisor pair and the telemetry property scaled by it.
addScaled(n, ep, cluster, mulName, mulAttr, mulCfg, mulDflt, divName, divAttr, divDflt, name, atType, attr, cfg, maker) ==
  LET n1 == addProperty(n, mulName, hiddenNumber(TRUE), ZHA, ep, cluster, mulAttr,
                        mulCfg, mulDflt, maker)
      n2 == addProperty(n1, divName, hiddenNumber(TRUE), ZHA, ep, cluster, divAttr,
                        mulCfg, divDflt, maker)
  IN addProperty(n2, name, Descr(atType, "number", TRUE, U, U), ZHA, ep, cluster, attr,
                 cfg, U, maker)

\* Lines 734-788.
addHaCurrentProperty(n, ep) ==
  addScaled(n, ep, "HAELECTRICAL", "_currentMul", "acCurrentMultiplier", "", "1",
            "_currentDiv", "acCurrentDivisor", "1",
            "current", "CurrentProperty", "rmsCurrent", "CONFIG_REPORT_CURRENT",
            "addHaCurrentProperty")

\* Lines 790-810.
addHaFrequencyProperty(n, ep) ==
  addProperty(n, "frequency", Descr("FrequencyProperty", "number", TRUE, U, U), ZHA, ep,
              "HAELECTRICAL", "acFrequency", "CONFIG_REPORT_FREQUENCY", U,
              "addHaFrequencyProperty")

\* Lines 812-866.
addHaInstantaneousPowerProperty(n, ep) ==
  addScaled(n, ep, "HAELECTRICAL", "_powerMul", "acPowerMultiplier", "", "1",
            "_powerDiv", "acPowerDivisor", "1",
            "instantaneousPower", "InstantaneousPowerProperty", "activePower",
            "CONFIG_REPORT_POWER", "addHaInstantaneousPowerProperty")

\* Lines 868-922.
addHaVoltageProperty(n, ep) ==
  addScaled(n, ep, "HAELECTRICAL", "_voltageMul", "acVoltageMultiplier", "", "1",
            "_voltageDiv", "acVoltageDivisor", "1",
            "voltage", "VoltageProperty", "rmsVoltage", "CONFIG_REPORT_VOLTAGE",
            "addHaVoltageProperty")

\* Lines 924-979.
addSeCurrentSummDeliveredProperty(n, ep) ==
  addScaled(n, ep, "SEMETERING", "_counterMul", "currentSummDeliveredMultiplier", "", "1",
            "_counterDiv", "currentSummDeliveredDivisor", "1000",
            "counter", "", "currentSummDelivered", "CONFIG_REPORT_MODE",
            "addSeCurrentSummDeliveredProperty")

\* Lines 981-1031.
addSeInstantaneousPowerProperty(n, ep) ==
  addScaled(n, ep, "SEMETERING", "_multiplier", "multiplier", "", U,
            "_divisor", "divisor", U,
            "instantaneousPower", "InstantaneousPowerProperty", "instantaneousDemand",
            "CONFIG_REPORT_INTEGER", "addSeInstantaneousPowerProperty")

\* Lines 1033-1069.
addOccupancySensorProperty(n, ep) ==
  LET n1 == addProperty(n, "occupied", Descr("BooleanProperty", "boolean", TRUE, U, U),
                        ZHA, ep, "OCCUPANCY_SENSOR", "occupancy", "CONFIG_REPORT_INTEGER",
                        U, "addOccupancySensorProperty")
  IN addProperty(n1, "sensorType", Descr("", "string", TRUE, U, U), ZHA, ep,
                 "OCCUPANCY_SENSOR", "occupancySensorType", "", U,
                 "addOccupancySensorProperty")

\* Lines 1071-1121.
addIlluminanceMeasurementProperty(n, ep) ==
  addScaled(n, ep, "ILLUMINANCE_MEASUREMENT", "_minIlluminance", "minMeasuredValue", "", U,
            "_maxIlluminance", "maxMeasuredValue", U,
            "illuminance", "IlluminanceProperty", "measuredValue",
            "CONFIG_REPORT_ILLUMINANCE", "addIlluminanceMeasurementProperty")

\* Line 1160: node.powerSource & (0x80 !== 0), that is powerSource & true.
backupBatteryFlag(n) == n.powerSource % 2 = 1

hasBattery(modelId) == modelId \in {"1116-S", "motionv4", "motionv5", "multiv4", "tagv4"}

\* Lines 1123-1210.
addPowerCfgVoltageProperty(n, ep) ==
  LET voltDescr == Descr("VoltageProperty", "number", TRUE, U, U)
      n1 == IF isMainsPowered(n)
            THEN addProperty(n, "mainsVoltage", voltDescr, ZHA, ep, "GENPOWERCFG",
                             "mainsVoltage", "CONFIG_REPORT_BATTERY", U,
                             "addPowerCfgVoltageProperty")
            ELSE n
      n2 == IF isBatteryPowered(n) \/ backupBatteryFlag(n) \/ hasBattery(n.modelId)
            THEN addProperty(n1, "batteryVoltage", voltDescr, ZHA, ep, "GENPOWERCFG",
                             "batteryVoltage", "CONFIG_REPORT_BATTERY", U,
                             "addPowerCfgVoltageProperty")
            ELSE n1
  IN IF isBatteryPowered(n)
     THEN addProperty(n2, "batteryPercentageRemaining",
                      Descr("", "number", TRUE, "0", "100"), ZHA, ep, "GENPOWERCFG",
                      "batteryPercentageRemaining", "", "null",
                      "addPowerCfgVoltageProperty")
     ELSE n2

\* Lines 1212-1268.
addTemperatureSensorProperty(n, ep) ==
  pushTemperatureSensor(
    addScaled(n, ep, "TEMPERATURE", "_minTemp", "minMeasuredValue", "", U,
              "_maxTemp", "maxMeasuredValue", U,
              "temperature", "TemperatureProperty", "measuredValue",
              "CONFIG_REPORT_TEMPERATURE", "addTemperatureSensorProperty"))

\* THERMOSTAT_SYSTEM_MODE.filter((x) => x) and HVAC_FAN_SEQ of zb-constants.
THERMOSTAT_SYSTEM_MODE == <<"off", "auto", "cool", "heat">>
HVAC_FAN_SEQ == <<"low/med/high", "low/high", "low/med/high/auto", "low/high/auto", "on/auto">>

\* One addProperty call of addThermostatProperties (cluster HVACTHERMOSTAT).
addThermo(n, ep, name, descr, attr, configReport) ==
  addProperty(n, name, descr, ZHA, ep, "HVACTHERMOSTAT", attr, configReport, U,
              "addThermostatProperties")

targetDescr(atType, readOnly) == Descr(atType, "number", readOnly, U, U)

\* Lines 1270-1741: the properties. The hooks wired at lines 1531-1634 are
\* ThermoSpec's; no snapshot of the model carries a thermostat value, so the
\* calls of lines 1639-1648 find no value and change nothing here.
addThermostatProperties(n, ep, fanEp) ==
  LET n1 == addThermo(n, ep, "temperature",
                      Descr("TemperatureProperty", "number", TRUE, "0", "40"),
                      "localTemp", "CONFIG_REPORT_TEMPERATURE")
      n2 == addThermo(n1, ep, "mode",
                      DescrEnum(Descr("ThermostatModeProperty", "string", FALSE, U, U),
                                THERMOSTAT_SYSTEM_MODE),
                      "systemMode", "")
      n3 == addThermo(n2, ep, "runMode", Descr("HeatingCoolingProperty", "string", TRUE, U, U),
                      "runningMode", "CONFIG_REPORT_MODE")
      n4 == addThermo(n3, ep, "_deadband", Descr("", "number", TRUE, "1", "2.5"),
                      "minSetpointDeadBand", "")
      n5 == addThermo(n4, ep, "_absMaxHeatTarget", targetDescr("", TRUE),
                      "absMaxHeatSetpointLimit", "")
      n6 == addThermo(n5, ep, "_absMinHeatTarget", targetDescr("", TRUE),
                      "absMinHeatSetpointLimit", "")
      n7 == addThermo(n6, ep, "_maxHeatTarget", targetDescr("", FALSE),
                      "maxHeatSetpointLimit", "")
      n8 == addThermo(n7, ep, "_minHeatTarget", targetDescr("", FALSE),
                      "minHeatSetpointLimit", "")
      n9 == addThermo(n8, ep, "heatTarget", targetDescr("TargetTemperatureProperty", FALSE),
                      "occupiedHeatingSetpoint", "")
      n10 == addThermo(n9, ep, "_absMaxCoolTarget", targetDescr("", TRUE),
                       "absMaxCoolSetpointLimit", "")
      n11 == addThermo(n10, ep, "_absMinCoolTarget", targetDescr("", TRUE),
                       "absMinCoolSetpointLimit", "")
      n12 == addThermo(n11, ep, "_maxCoolTarget", targetDescr("", FALSE),
                       "maxCoolSetpointLimit", "")
      n13 == addThermo(n12, ep, "_minCoolTarget", targetDescr("", FALSE),
                       "minCoolSetpointLimit", "")
      n14 == addThermo(n13, ep, "coolTarget", targetDescr("TargetTemperatureProperty", FALSE),
                       "occupiedCoolingSetpoint", "")
      n15 == addThermo(n14, ep, "hold", Descr("BooleanProperty", "boolean", FALSE, U, U),
                       "tempSetpointHold", "CONFIG_REPORT_MODE")
      uiCfgEndpoint == findZhaEndpointWithInputClusterIdHex(n, "HVACUSERINTERFACECFG")
      n16 == IF uiCfgEndpoint # 0
             THEN addProperty(n15, "units",
                              DescrEnum(Descr("", "string", FALSE, U, U), <<"C", "F">>), ZHA,
                              uiCfgEndpoint, "HVACUSERINTERFACECFG", "tempDisplayMode", "", U,
                              "addThermostatProperties")
             ELSE n15
  IN IF fanEp # 0
     THEN addProperty(
            addProperty(n16, "_fanModeSeq",
                        DescrEnum(Descr("", "string", TRUE, U, U), HVAC_FAN_SEQ), ZHA, fanEp,
                        "HVACFANCTRL", "fanModeSequence", "", U, "addThermostatProperties"),
            "fanMode", DescrEnum(Descr("", "string", FALSE, U, U), <<>>), ZHA, fanEp,
            "HVACFANCTRL", "fanMode", "CONFIG_REPORT_MODE", U, "addThermostatProperties")
     ELSE n16

\* One addProperty call of addZoneTypeProperty and the mask set on its result.
addZoneMask(n, name, descr, mask) ==
  setField(addProperty(n, name, descr, ZHA, n.ssIasZoneEndpoint, "SSIASZONE", "", "", U,
                       "addZoneTypeProperty"),
           name, "mask", mask)

\* Lines 1743-1796. propertyName "" stands for null.
addZoneTypeProperty(n, propertyName, propertyDescr) ==
  LET n1 == IF propertyName # ""
            THEN addZoneMask(addZoneMask(n, propertyName, propertyDescr, "ALARM_MASK"),
                             "tamper", Descr("TamperProperty", "boolean", TRUE, U, U),
                             "TAMPER_MASK")
            ELSE n
  IN addZoneMask(n1, "lowBattery", Descr("LowBatteryProperty", "boolean", TRUE, U, U),
                 "LOW_BATTERY_MASK")

\* Lines 1810-1843. The property is built outside addProperty, with '' for its
\* profile, endpoint and cluster (0 and "" here).
\* Lines 1810-1843 without the test of the showAging flag.
addLastSeenPropertyMutantAlways(n) ==
  setProperty(n, "lastSeen",
    [ZigbeeProperty(Descr("", "string", TRUE, U, U), 0, 0, "", "")
       EXCEPT !.value = "", !.fireAndForget = TRUE, !.maker = "addLastSeenProperty"])

addLastSeenProperty(n) ==
  IF n.showAging
  THEN setProperty(n, "lastSeen",
         [ZigbeeProperty(Descr("", "string", TRUE, U, U), 0, 0, "", "")
            EXCEPT !.value = "", !.fireAndForget = TRUE, !.maker = "addLastSeenProperty"])
  ELSE n

(***************************************************************************)
(* The archetype initializers.                                             *)
(***************************************************************************)
\* Entering an initializer (bookkeeping: the classifier keeps no such log).
enter(n, init) == [n EXCEPT !.inits = Append(@, init)]

setType(n, type) == [n EXCEPT !.type = type]

\* node.modelId.includes('motion') on the model ids of the model.
includesMotion(modelId) ==
  modelId \in {"motionv4", "motionv5", "TRADFRI motion sensor"}

\* Lines 2156-2160.
initBinarySensor(n, endpointNum) ==
  addPresentValueProperty(
    setTags(setType(enter(n, "initBinarySensor"), "sensor"), <<"BinarySensor">>),
    endpointNum)

\* Line 2172: node['@type'] = ZONE_TYPE_NAME[zoneType]['@type'], the table's
\* own array and not a copy of it.
zoneTagsAliasMutantCopy(n, zoneType) == setTags(n, n.zt[zoneType])

zoneTagsAlias(n, zoneType) == [n EXCEPT !.hasTags = TRUE, !.tagsRef = zoneType]

\* Lines 2162-2209.
initBinarySensorFromZoneType(n) ==
  LET n0 == setType(enter(n, "initBinarySensorFromZoneType"), "sensor")
      zoneType == IF n.zoneType = 0 /\ ZONE_TYPE_ZERO_has(n.modelId)
                  THEN ZONE_TYPE_ZERO(n.modelId) ELSE n.zoneType
  IN IF zoneType \in ZoneCodes
     THEN addZoneTypeProperty(
            zoneTagsAlias(setType(n0, ZONE_TYPE_NAME[zoneType].type), zoneType),
            ZONE_TYPE_NAME[zoneType].propertyName,
            Descr(ZONE_TYPE_NAME[zoneType].atType, "boolean", TRUE, U, U))
     ELSE IF zoneType = ZONE_TYPE_BUTTON
     THEN addZoneTypeProperty(
            addEvents(setTags(setType(n0, "button"), <<"PushButton">>),
                      {"pressed", "doublePressed", "longPressed"}),
            "", Descr("", "", FALSE, U, U))
     ELSE addZoneTypeProperty(
            setTags(setType(n0, "sensor"), <<"BinarySensor">>),
            "on", Descr("BooleanProperty", "boolean", FALSE, U, U))

\* Lines 2211-2215.
initDoorLock(n, doorLockEndpoint) ==
  addDoorLockedProperty(
    setTags(setType(enter(n, "initDoorLock"), "DoorLock"), <<"Lock">>),
    doorLockEndpoint)

\* Lines 2217-2223.
initOccupancySensor(n, msOccupancySensingEndpoint) ==
  addOccupancySensorProperty(
    [setType(setTags(enter(n, "initOccupancySensor"), <<"BinarySensor">>), "sensor")
       EXCEPT !.name = "occupancy"],
    msOccupancySensingEndpoint)

RECURSIVE onOffSwitchesLoop(_, _, _)
\* The loop of lines 2229-2233 from the i-th endpoint on (idx = i - 1).
onOffSwitchesLoop(n, genOnOffEndpoints, i) ==
  IF i > Len(genOnOffEndpoints) THEN n
  ELSE onOffSwitchesLoop(addOnProperty(n, genOnOffEndpoints[i], suffixOf(i - 1)),
                         genOnOffEndpoints, i + 1)

\* Lines 2225-2234.
initOnOffSwitches(n, genOnOffEndpoints) ==
  onOffSwitchesLoop(
    setTags(setType(enter(n, "initOnOffSwitches"), "switch"), <<"OnOffSwitch">>),
    genOnOffEndpoints, 1)

\* Lines 2286-2317: the properties and tags of a light or a dimmable switch.
levelSwitchProperties(n, genLevelCtrlEndpoint, isLight, isColorLight, isColorTemperatureLight, colorCapabilities) ==
  IF isLight
  THEN LET n1 == setType(n, "light")
       IN IF isColorLight
          THEN LET n2 == IF HasBit(colorCapabilities, CC_HUE_SAT)
                         THEN addColorProperty(n1, n1.lightingColorCtrlEndpoint)
                         ELSE IF HasBit(colorCapabilities, CC_XY)
                         THEN addColorXYProperty(n1, n1.lightingColorCtrlEndpoint)
                         ELSE n1
               IN IF n2.raised THEN n2
                  ELSE setTags(n2, <<"Light", "ColorControl", "OnOffSwitch">>)
          ELSE IF isColorTemperatureLight
          THEN setTags(addBrightnessProperty(
                         addColorTemperatureProperty(n1, n1.lightingColorCtrlEndpoint),
                         genLevelCtrlEndpoint),
                       <<"Light", "ColorControl", "OnOffSwitch">>)
          ELSE setTags(addBrightnessProperty(n1, genLevelCtrlEndpoint),
                       <<"Light", "OnOffSwitch">>)
  ELSE setTags(addLevelProperty(n, genLevelCtrlEndpoint),
               <<"OnOffSwitch", "MultiLevelSwitch">>)

\* Lines 2236-2319.
initMultiLevelSwitch(n, genLevelCtrlEndpoint, lightLinkEndpoint) ==
  LET n0 == setType(enter(n, "initMultiLevelSwitch"), "switch")
      cc0 == IF n.hasColorCapabilities THEN n.colorCapabilities ELSE 0
      zllDeviceId == IF lightLinkEndpoint # 0
                     THEN n.activeEndpoints[lightLinkEndpoint].deviceId ELSE ""
      zllLight == lightLinkEndpoint # 0 /\ ZLL_isLight(zllDeviceId)
      levelEndpoint == n.activeEndpoints[genLevelCtrlEndpoint]
      zhaLight == levelEndpoint.profileId = "0104" /\ ZHA_isLight(levelEndpoint.deviceId)
      assumeColor == /\ zhaLight
                     /\ ZHA_isColorLight(levelEndpoint.deviceId)
                     /\ ~n.hasColorCapabilities
      colorCapabilities == IF assumeColor THEN OrBit(cc0, CC_HUE_SAT) ELSE cc0
      isLight == zllLight \/ zhaLight
      isColorLight ==
        \/ zllLight /\ ZLL_isColorLight(zllDeviceId)
        \/ assumeColor
        \/ isLight /\ HasColorBits(colorCapabilities)
      isColorTemperatureLight ==
        \/ zllLight /\ ZLL_isColorTemperatureLight(zllDeviceId)
        \/ zhaLight /\ ZHA_isColorTemperatureLight(levelEndpoint.deviceId)
        \/ isLight /\ HasBit(colorCapabilities, CC_TEMPERATURE)
  IN IF lightLinkEndpoint # 0 /\ zllDeviceId = ZLL_ON_OFF_SWITCH
     THEN initOnOffSwitches(n0, <<genLevelCtrlEndpoint>>)
     ELSE LET n1 == levelSwitchProperties(n0, genLevelCtrlEndpoint, isLight, isColorLight,
                                          isColorTemperatureLight, colorCapabilities)
          IN IF n1.raised THEN n1 ELSE addOnProperty(n1, genLevelCtrlEndpoint, "")

\* Lines 2326-2356: one iteration of the loop of initOnOffButtons.
onOffButton(n, endpoint, suffix) ==
  IF includesMotion(n.modelId)
  THEN addEvents(
         addButtonMotionProperty(setTags(setType(n, "motion"), <<"MotionSensor">>),
                                 endpoint, suffix),
         {"motion", "no-motion"})
  ELSE addEvents(
         setField(addButtonOnProperty(setTags(n, <<"PushButton">>), endpoint, suffix),
                  "on" \o suffix, "buttonIndex", 1),
         {"1-pressed"})

RECURSIVE onOffButtonsLoop(_, _, _)
onOffButtonsLoop(n, genOnOffOutputEndpoints, i) ==
  IF i > Len(genOnOffOutputEndpoints) THEN n
  ELSE onOffButtonsLoop(onOffButton(n, genOnOffOutputEndpoints[i], suffixOf(i - 1)),
                        genOnOffOutputEndpoints, i + 1)

\* Lines 2321-2358.
initOnOffButtons(n, genOnOffOutputEndpoints) ==
  onOffButtonsLoop(setType(enter(n, "initOnOffButtons"), "button"),
                   genOnOffOutputEndpoints, 1)

\* Lines 2378-2390: the E1810 remote gets the scenes cluster it does not list.
tradfriWorkaround(n, endpoint) ==
  IF /\ findZhaEndpointWithOutputClusterIdHex(n, "GENSCENES") = <<>>
     /\ endpoint = 1
     /\ n.activeEndpoints[1].exists
     /\ n.activeEndpoints[1].deviceId = "0820"
  THEN [n EXCEPT !.activeEndpoints[1].outputClusters = @ \cup {"GENSCENES"}]
  ELSE n

\* `${i + 2}-pressed`, -longPressed and -released for i below eventLimit.
remoteEvents(eventLimit) ==
  {"2-pressed", "2-longPressed", "2-released", "3-pressed", "3-longPressed", "3-released"}
  \cup IF eventLimit = 4
       THEN {"4-pressed", "4-longPressed", "4-released",
             "5-pressed", "5-longPressed", "5-released"}
       ELSE {}

\* Lines 2378-2434: the IKEA remote.
tradfriRemote(n, endpoint, suffix) ==
  LET n1 == tradfriWorkaround(n, endpoint)
      genScenesOutputEndpoints == findZhaEndpointWithOutputClusterIdHex(n1, "GENSCENES")
      hasScenes == genScenesOutputEndpoints # <<>>
      n2 == IF hasScenes
            THEN setField(addButtonSceneProperty(n1, genScenesOutputEndpoints[1]),
                          "scene", "buttonIndex", 4)
            ELSE n1
      n3 == addEvents(setField(n2, "on" \o suffix, "buttonIndex", 1), {"1-pressed"})
  IN addEvents(setField(n3, "level" \o suffix, "buttonIndex", 2),
               remoteEvents(IF hasScenes THEN 4 ELSE 2))

\* Lines 2497-2514.
addSceneEvents(n, levelName) ==
  addEvents(setField(setField(n, levelName, "buttonIndex", 2), levelName, "maximum", "256"),
            {"4-pressed", "54-pressed", "104-pressed", "155-pressed", "196-pressed",
             "256-pressed"})

\* Lines 2447-2493: the switch on the model id.
buttonModel(n, endpoint, suffix) ==
  CASE n.modelId = "3130" ->
         addEvents(setField(n, "level" \o suffix, "buttonIndex", 1),
                   {"1-longPressed", "2-longPressed", "1-released", "2-released"})
    [] n.modelId \in {"RWL020", "RWL021"} ->
         addEvents(setField(n, "level" \o suffix, "buttonIndex", 3),
                   {"3-pressed", "4-pressed"})
    [] n.modelId = "RC 110" ->
         IF endpoint = 1 THEN addSceneEvents(n, "level" \o suffix) ELSE n
    [] OTHER -> n

\* Lines 2371-2493: one iteration of the loop of initMultiLevelButtons.
multiLevelButton(n, endpoint, suffix) ==
  LET n1 == addButtonLevelProperty(addButtonOnProperty(n, endpoint, suffix),
                                   endpoint, suffix)
  IN IF n1.modelId = "TRADFRI remote control"
     THEN tradfriRemote(n1, endpoint, suffix)
     ELSE buttonModel(
            addEvents(setField(n1, "on" \o suffix, "buttonIndex", 1),
                      {"1-pressed", "2-pressed"}),
            endpoint, suffix)

RECURSIVE multiLevelButtonsLoop(_, _, _)
\* The loop ends at the return of line 2433 for the IKEA remote.
multiLevelButtonsLoop(n, genLevelCtrlOutputEndpoints, i) ==
  IF i > Len(genLevelCtrlOutputEndpoints) THEN n
  ELSE LET n1 == multiLevelButton(n, genLevelCtrlOutputEndpoints[i], suffixOf(i - 1))
       IN IF n.modelId = "TRADFRI remote control" THEN n1
          ELSE multiLevelButtonsLoop(n1, genLevelCtrlOutputEndpoints, i + 1)

\* Lines 2360-2495.
initMultiLevelButtons(n, genLevelCtrlOutputEndpoints, genOnOffOutputEndpoints) ==
  LET n0 == enter(n, "initMultiLevelButtons")
  IN IF includesMotion(n.modelId)
     THEN initOnOffButtons(n0, genOnOffOutputEndpoints)
     ELSE multiLevelButtonsLoop(setTags(setType(n0, "button"), <<"PushButton">>),
                                genLevelCtrlOutputEndpoints, 1)

\* Lines 2516-2543.
initHaSmartPlug(n, haElectricalEndpoint, seMeteringEndpoint, genLevelCtrlEndpoint) ==
  LET n1 == addOnProperty(
              setTags(setType(enter(n, "initHaSmartPlug"), "smartplug"),
                      <<"OnOffSwitch", "SmartPlug", "EnergyMonitor">>),
              haElectricalEndpoint, "")
      n2 == IF /\ genLevelCtrlEndpoint # 0
               /\ n.activeEndpoints[genLevelCtrlEndpoint].deviceId # ZHA_ON_OFF_SWITCH
               /\ n.activeEndpoints[genLevelCtrlEndpoint].deviceId # ZHA_ON_OFF_OUTPUT
            THEN pushTag(addLevelProperty(n1, genLevelCtrlEndpoint), "MultiLevelSwitch")
            ELSE n1
      n3 == addHaVoltageProperty(
              addHaFrequencyProperty(
                addHaCurrentProperty(
                  addHaInstantaneousPowerProperty(n2, haElectricalEndpoint),
                  haElectricalEndpoint),
                haElectricalEndpoint),
              haElectricalEndpoint)
  IN IF seMeteringEndpoint # 0
     THEN addSeCurrentSummDeliveredProperty(n3, seMeteringEndpoint)
     ELSE n3

\* Lines 2545-2555.
initSeSmartPlug(n, seMeteringEndpoint, genLevelCtrlEndpoint) ==
  LET n1 == addOnProperty(
              setTags(setType(enter(n, "initSeSmartPlug"), "smartplug"),
                      <<"OnOffSwitch", "SmartPlug", "EnergyMonitor">>),
              seMeteringEndpoint, "")
      n2 == IF genLevelCtrlEndpoint # 0
            THEN pushTag(addLevelProperty(n1, genLevelCtrlEndpoint), "MultiLevelSwitch")
            ELSE n1
  IN addSeCurrentSummDeliveredProperty(
       addSeInstantaneousPowerProperty(n2, seMeteringEndpoint), seMeteringEndpoint)

\* Lines 2557-2563.
initLightingPowerMetering(n, seMeteringEndpoint, genLevelCtrlEndpoint) ==
  addSeInstantaneousPowerProperty(
    addBrightnessProperty(
      addOnProperty(
        setTags(setType(enter(n, "initLightingPowerMetering"), "light"),
                <<"OnOffSwitch", "Light", "EnergyMonitor">>),
        genLevelCtrlEndpoint, ""),
      genLevelCtrlEndpoint),
    seMeteringEndpoint)

\* Lines 2565-2569.
initThermostat(n, hvacThermostatEndpoint, hvacFanControlEndpoint) ==
  addThermostatProperties(
    setTags(setType(enter(n, "initThermostat"), "thermostat"), <<"Thermostat">>),
    hvacThermostatEndpoint, hvacFanControlEndpoint)

(***************************************************************************)
(* classifyInternal and classify.                                          *)
(***************************************************************************)
\* Lines 1967-1974.
isZhaLightOf(n, seMeteringEndpoint, haElectricalEndpoint) ==
  \/ seMeteringEndpoint # 0 /\ ZHA_isLight(n.activeEndpoints[seMeteringEndpoint].deviceId)
  \/ haElectricalEndpoint # 0 /\ ZHA_isLight(n.activeEndpoints[haElectricalEndpoint].deviceId)

\* Lines 2100-2106: rules 11 and 12. The mutant tries the binary input first.
rulesFromDoorLockMutantBinaryFirst(n, e) ==
  IF e.genBinaryInput # 0 THEN initBinarySensor(n, e.genBinaryInput)
  ELSE IF e.doorLock # 0 THEN initDoorLock(n, e.doorLock)
  ELSE n

rulesFromDoorLock(n, e) ==
  IF e.doorLock # 0 THEN initDoorLock(n, e.doorLock)
  ELSE IF e.genBinaryInput # 0 THEN initBinarySensor(n, e.genBinaryInput)
  ELSE n

\* Lines 2080-2099: rules 4 to 10, then the rest.
rulesFromMetering(n, e) ==
  IF e.seMetering # 0 /\ e.genLevelCtrl # 0
  THEN initLightingPowerMetering(n, e.seMetering, e.genLevelCtrl)
  ELSE IF /\ e.haElectrical # 0
          /\ e.lightLink = 0
          /\ n.lightingColorCtrlEndpoint = 0
          /\ ~e.isZhaLight
  THEN initHaSmartPlug(n, e.haElectrical, e.seMetering, e.genLevelCtrl)
  ELSE IF /\ e.seMetering # 0
          /\ e.lightLink = 0
          /\ n.lightingColorCtrlEndpoint = 0
          /\ ~e.isZhaLight
  THEN initSeSmartPlug(n, e.seMetering, e.genLevelCtrl)
  ELSE IF e.genLevelCtrl # 0 THEN initMultiLevelSwitch(n, e.genLevelCtrl, e.lightLink)
  ELSE IF e.genOnOff # <<>> THEN initOnOffSwitches(n, e.genOnOff)
  ELSE IF e.genLevelCtrlOutput # <<>> /\ e.genOnOffOutput # <<>>
  THEN initMultiLevelButtons(n, e.genLevelCtrlOutput, e.genOnOffOutput)
  ELSE IF e.genOnOffOutput # <<>> THEN initOnOffButtons(n, e.genOnOffOutput)
  ELSE rulesFromDoorLock(n, e)

\* Lines 2076-2078: rule 3, then the rest. The mutant lets a level control
\* win over the thermostat.
rulesFromThermostatMutantLevelFirst(n, e) ==
  IF e.genLevelCtrl # 0 THEN initMultiLevelSwitch(n, e.genLevelCtrl, e.lightLink)
  ELSE IF e.hvacThermostat # 0
  THEN initThermostat(n, e.hvacThermostat, e.hvacFanControl)
  ELSE rulesFromMetering(n, e)

rulesFromThermostat(n, e) ==
  IF e.hvacThermostat # 0 THEN initThermostat(n, e.hvacThermostat, e.hvacFanControl)
  ELSE rulesFromMetering(n, e)

\* Lines 2072-2107: the ordered rules; the first that holds initializes.
ruleChain(n, e) ==
  IF n.hasZoneType THEN initBinarySensorFromZoneType(n)
  ELSE IF e.msOccupancySensing # 0 THEN initOccupancySensor(n, e.msOccupancySensing)
  ELSE rulesFromThermostat(n, e)

\* Lines 2109-2124 without the thermostat test of line 2110.
extraPropertiesMutantNoTest(n, e) ==
  addLastSeenProperty(
    IF e.msTemperature # 0 THEN addTemperatureSensorProperty(n, e.msTemperature)
    ELSE IF e.genDeviceTempCfg # 0 THEN addDeviceTemperatureProperty(n, e.genDeviceTempCfg)
    ELSE n)

\* Lines 2109-2124: the properties added whatever the archetype is.
extraProperties(n, e) ==
  LET temperature(m) ==
        IF e.hvacThermostat = 0
        THEN IF e.msTemperature # 0
             THEN addTemperatureSensorProperty(m, e.msTemperature)
             ELSE IF e.genDeviceTempCfg # 0
             THEN addDeviceTemperatureProperty(m, e.genDeviceTempCfg)
             ELSE m
        ELSE m
      illuminance(m) ==
        IF e.illuminance # 0 THEN addIlluminanceMeasurementProperty(m, e.illuminance) ELSE m
      powerCfg(m) ==
        IF e.genPowerCfg # 0 THEN addPowerCfgVoltageProperty(m, e.genPowerCfg) ELSE m
  IN addLastSeenProperty(powerCfg(illuminance(temperature(n))))

\* Lines 1962-2035: the endpoints looked up before any rule is tried.
endpointsOf(n) ==
  LET seMetering == findZhaEndpointWithInputClusterIdHex(n, "SEMETERING")
      haElectrical == findZhaEndpointWithInputClusterIdHex(n, "HAELECTRICAL")
  IN [seMetering |-> seMetering,
      haElectrical |-> haElectrical,
      isZhaLight |-> isZhaLightOf(n, seMetering, haElectrical),
      genBinaryInput |-> findZhaEndpointWithInputClusterIdHex(n, "GENBINARYINPUT"),
      genLevelCtrl |-> findZhaEndpointWithInputClusterIdHex(n, "GENLEVELCTRL"),
      genLevelCtrlOutput |-> findZhaEndpointWithOutputClusterIdHex(n, "GENLEVELCTRL"),
      genOnOff |-> findZhaEndpointsWithInputClusterIdHex(n, "GENONOFF"),
      genOnOffOutput |-> findZhaEndpointWithOutputClusterIdHex(n, "GENONOFF"),
      doorLock |-> findZhaEndpointWithInputClusterIdHex(n, "DOORLOCK"),
      msOccupancySensing |-> findZhaEndpointWithInputClusterIdHex(n, "OCCUPANCY_SENSOR"),
      msTemperature |-> findZhaEndpointWithInputClusterIdHex(n, "TEMPERATURE"),
      hvacThermostat |-> findZhaEndpointWithInputClusterIdHex(n, "HVACTHERMOSTAT"),
      hvacFanControl |-> findZhaEndpointWithInputClusterIdHex(n, "HVACFANCTRL"),
      illuminance |-> findZhaEndpointWithInputClusterIdHex(n, "ILLUMINANCE_MEASUREMENT"),
      genPowerCfg |-> findZhaEndpointWithInputClusterIdHex(n, "GENPOWERCFG"),
      genDeviceTempCfg |-> findZhaEndpointWithInputClusterIdHex(n, "GENDEVICETEMPCFG"),
      lightLink |-> findZhaEndpointWithInputClusterIdHex(n, "LIGHTLINK"),
      ssIasZone |-> findZhaEndpointWithInputClusterIdHex(n, "SSIASZONE")]

\* Lines 1961-2125.
classifyInternal(n) ==
  LET e == endpointsOf(n)
      common(m) == IF m.raised THEN m ELSE extraProperties(m, e)
  IN common(ruleChain([n EXCEPT !.ssIasZoneEndpoint = e.ssIasZone], e))

\* Lines 2127-2154. The default name is `${node.id}-${node.type}`; the id is
\* left out of the names.
classify(n) ==
  IF n.isCoordinator THEN n
  ELSE LET named(m) == IF m.raised THEN m
                       ELSE IF m.name = "" THEN [m EXCEPT !.name = m.type] ELSE m
       IN named(classifyInternal(IF ~n.hasTags THEN setTags(n, <<>>) ELSE n))

(***************************************************************************)
(* Spec: devices are discovered and classified one after the other by the  *)
(* same classifier, whose zone-type table lives as long as the process.    *)
(***************************************************************************)
\* The device object of a descriptor, seeing the table as it is now.
newNode(fs, zt) == [nodeOf(fs) EXCEPT !.zt = zt]

\* The '@type' array of the device in the current state.
Tags == tagsOf(node)

ClassInit ==
  /\ feats = {}
  /\ zoneTags = ZoneTagsInit
  /\ node = newNode({}, ZoneTagsInit)
  /\ phase = "discover"

\* Interrogation finds one more feature of the device being discovered.
Discover(f) ==
  /\ phase = "discover"
  /\ f \notin feats
  /\ ~Conflicts(f, feats)
  /\ Explored(feats \cup {f})
  /\ feats' = feats \cup {f}
  /\ node' = newNode(feats', zoneTags)
  /\ UNCHANGED <<zoneTags, phase, thermoVars, exposeVars>>

\* classify(node) on the discovered device.
Classify ==
  /\ phase = "discover"
  /\ node' = classify(node)
  /\ zoneTags' = node'.zt
  /\ phase' = "classified"
  /\ UNCHANGED <<feats, thermoVars, exposeVars>>

\* The next device joins; the classifier object and its table stay.
NextDevice ==
  /\ phase = "classified"
  /\ feats' = {}
  /\ node' = newNode({}, zoneTags)
  /\ phase' = "discover"
  /\ UNCHANGED <<zoneTags, thermoVars, exposeVars>>

(***************************************************************************)
(* ThermoSpec: the constraint hooks of addThermostatProperties.            *)
(* A JavaScript value is [k, v]: k is "absent" (no own property), "null"   *)
(* or "num"; v is the number.                                              *)
(***************************************************************************)
Absent == [k |-> "absent", v |-> 0]
Null == [k |-> "null", v |-> 0]
Num(x) == [k |-> "num", v |-> x]

\* property.hasOwnProperty(field)
Own(x) == x.k # "absent"
\* The operand of an arithmetic operator: null counts as 0.
ToNumber(x) == IF x.k = "num" THEN x.v ELSE 0

Min2(a, b) == IF a <= b THEN a ELSE b
Max2(a, b) == IF a >= b THEN a ELSE b

ThermoProps ==
  {"_deadband", "_absMaxHeatTarget", "_absMinHeatTarget", "_maxHeatTarget",
   "_minHeatTarget", "heatTarget", "_absMaxCoolTarget", "_absMinCoolTarget",
   "_maxCoolTarget", "_minCoolTarget", "coolTarget"}

\* The values reports carry, per property.
ThermoReports ==
  [p \in ThermoProps |->
     CASE p = "_deadband"         -> {Num(2), Num(3), Null}
       [] p = "_absMaxHeatTarget" -> {Num(30)}
       [] p = "_absMinHeatTarget" -> {Num(10)}
       [] p = "_maxHeatTarget"    -> {Num(30), Num(21)}
       [] p = "_minHeatTarget"    -> {Num(10), Num(22)}
       [] p = "heatTarget"        -> {Num(20), Num(22), Null}
       [] p = "_absMaxCoolTarget" -> {Num(35)}
       [] p = "_absMinCoolTarget" -> {Num(15)}
       [] p = "_maxCoolTarget"    -> {Num(35)}
       [] p = "_minCoolTarget"    -> {Num(15), Num(24)}
       [] OTHER                   -> {Num(25), Num(23), Null}]

\* ZigbeeProperty.setMinimum / setMaximum: the bound is stored (and the
\* device description republished).
setMinimum(t, p, x) == [t EXCEPT ![p].minimum = x]
setMaximum(t, p, x) == [t EXCEPT ![p].maximum = x]

\* Lines 1545-1571 without the second "not enough information" return.
heatTargetUpdateMaximumMutantEager(t) ==
  IF ~Own(t["_maxHeatTarget"].value) THEN t
  ELSE IF \/ ~Own(t["_deadband"].value) /\ ~Own(t["coolTarget"].value)
          \/ t["_deadband"].value = Null /\ t["coolTarget"].value = Null
  THEN setMaximum(t, "heatTarget", t["_maxHeatTarget"].value)
  ELSE LET max1 == ToNumber(t["_maxHeatTarget"].value)
           max2 == ToNumber(t["coolTarget"].value) - ToNumber(t["_deadband"].value)
       IN setMaximum(t, "heatTarget", Num(Min2(max1, max2)))

\* Lines 1545-1571.
heatTargetUpdateMaximum(t) ==
  IF ~Own(t["_maxHeatTarget"].value) THEN t
  ELSE IF \/ ~Own(t["_deadband"].value) /\ ~Own(t["coolTarget"].value)
          \/ t["_deadband"].value = Null /\ t["coolTarget"].value = Null
  THEN setMaximum(t, "heatTarget", t["_maxHeatTarget"].value)
  ELSE IF ~Own(t["_deadband"].value) \/ ~Own(t["coolTarget"].value) THEN t
  ELSE LET max1 == ToNumber(t["_maxHeatTarget"].value)
           max2 == ToNumber(t["coolTarget"].value) - ToNumber(t["_deadband"].value)
       IN setMaximum(t, "heatTarget", Num(Min2(max1, max2)))

\* Lines 1595-1621 with the minimum always taken from the user limit.
coolTargetUpdateMinimumMutantUserOnly(t) ==
  IF ~Own(t["_minCoolTarget"].value) THEN t
  ELSE setMinimum(t, "coolTarget", t["_minCoolTarget"].value)

\* Lines 1595-1621.
coolTargetUpdateMinimum(t) ==
  IF ~Own(t["_minCoolTarget"].value) THEN t
  ELSE IF \/ ~Own(t["_deadband"].value) /\ ~Own(t["heatTarget"].value)
          \/ t["_deadband"].value = Null /\ t["heatTarget"].value = Null
  THEN setMinimum(t, "coolTarget", t["_minCoolTarget"].value)
  ELSE IF ~Own(t["_deadband"].value) \/ ~Own(t["heatTarget"].value) THEN t
  ELSE LET min1 == ToNumber(t["_minCoolTarget"].value)
           min2 == ToNumber(t["heatTarget"].value) + ToNumber(t["_deadband"].value)
       IN setMinimum(t, "coolTarget", Num(Max2(min1, min2)))

\* Lines 1631-1634; the mutant forgets the heat side.
deadbandUpdatedMutantCoolOnly(t) == coolTargetUpdateMinimum(t)

deadbandUpdated(t) == coolTargetUpdateMinimum(heatTargetUpdateMaximum(t))

\* Lines 1539-1543; the mutant leaves the cool target's minimum alone.
heatTargetUpdatedMutantNoCool(t) ==
  setMaximum(setMinimum(t, "_maxHeatTarget", t["heatTarget"].value),
             "_minHeatTarget", t["heatTarget"].value)

heatTargetUpdated(t) ==
  coolTargetUpdateMinimum(
    setMaximum(setMinimum(t, "_maxHeatTarget", t["heatTarget"].value),
               "_minHeatTarget", t["heatTarget"].value))

\* Lines 1589-1593 without the call of heatTargetProperty.updateMaximum.
coolTargetUpdatedMutantNoHeat(t) ==
  setMaximum(setMinimum(t, "_maxCoolTarget", t["coolTarget"].value),
             "_minCoolTarget", t["coolTarget"].value)

\* Lines 1589-1593.
coolTargetUpdated(t) ==
  heatTargetUpdateMaximum(
    setMaximum(setMinimum(t, "_maxCoolTarget", t["coolTarget"].value),
               "_minCoolTarget", t["coolTarget"].value))

\* The calls each hook of lines 1531-1634 makes, as <<property, method>>.
\* setMinimum and setMaximum store the bound and call no hook. The mutant
\* has coolTarget.updateMinimum fire the heat target's updated hook.
HookCalleesMutantLoop(h) ==
  CASE h = <<"heatTarget", "updated">> -> {<<"coolTarget", "updateMinimum">>}
    [] h = <<"coolTarget", "updateMinimum">> -> {<<"heatTarget", "updated">>}
    [] OTHER -> {}

HookCallees(h) ==
  CASE h = <<"_absMaxHeatTarget", "updated">> -> {<<"_maxHeatTarget", "setMaximum">>}
    [] h = <<"_maxHeatTarget", "updated">> -> {<<"heatTarget", "updateMaximum">>}
    [] h = <<"heatTarget", "updated">> ->
         {<<"_maxHeatTarget", "setMinimum">>, <<"_minHeatTarget", "setMaximum">>,
          <<"coolTarget", "updateMinimum">>}
    [] h = <<"heatTarget", "updateMaximum">> -> {<<"heatTarget", "setMaximum">>}
    [] h = <<"_minHeatTarget", "updated">> -> {<<"heatTarget", "setMinimum">>}
    [] h = <<"_absMinHeatTarget", "updated">> -> {<<"_minHeatTarget", "setMinimum">>}
    [] h = <<"_absMaxCoolTarget", "updated">> -> {<<"_maxCoolTarget", "setMaximum">>}
    [] h = <<"_maxCoolTarget", "updated">> -> {<<"coolTarget", "setMaximum">>}
    [] h = <<"coolTarget", "updated">> ->
         {<<"_maxCoolTarget", "setMinimum">>, <<"_minCoolTarget", "setMaximum">>,
          <<"heatTarget", "updateMaximum">>}
    [] h = <<"coolTarget", "updateMinimum">> -> {<<"coolTarget", "setMinimum">>}
    [] h = <<"_minCoolTarget", "updated">> -> {<<"coolTarget", "updateMinimum">>}
    [] h = <<"_absMinCoolTarget", "updated">> -> {<<"_minCoolTarget", "setMinimum">>}
    [] h = <<"_deadband", "updated">> ->
         {<<"heatTarget", "updateMaximum">>, <<"coolTarget", "updateMinimum">>}
    [] OTHER -> {}

\* The `updated` hook of each property (lines 1531-1634).
updated(t, p) ==
  CASE p = "_absMaxHeatTarget" -> setMaximum(t, "_maxHeatTarget", t[p].value)
    [] p = "_maxHeatTarget"    -> heatTargetUpdateMaximum(t)
    [] p = "heatTarget"        -> heatTargetUpdated(t)
    [] p = "_minHeatTarget"    -> setMinimum(t, "heatTarget", t[p].value)
    [] p = "_absMinHeatTarget" -> setMinimum(t, "_minHeatTarget", t[p].value)
    [] p = "_absMaxCoolTarget" -> setMaximum(t, "_maxCoolTarget", t[p].value)
    [] p = "_maxCoolTarget"    -> setMaximum(t, "coolTarget", t[p].value)
    [] p = "coolTarget"        -> coolTargetUpdated(t)
    [] p = "_minCoolTarget"    -> coolTargetUpdateMinimum(t)
    [] p = "_absMinCoolTarget" -> setMinimum(t, "_minCoolTarget", t[p].value)
    [] p = "_deadband"         -> deadbandUpdated(t)
    [] OTHER -> t

\* Lines 1639-1648: the calls at the end of construction.
thermoConstructed(t) ==
  LET t1 == coolTargetUpdateMinimum(heatTargetUpdateMaximum(t))
      t2 == IF Own(t1["_minHeatTarget"].value)
            THEN setMinimum(t1, "heatTarget", t1["_minHeatTarget"].value) ELSE t1
  IN IF Own(t2["_maxCoolTarget"].value)
     THEN setMaximum(t2, "coolTarget", t2["_maxCoolTarget"].value) ELSE t2

\* A value arrives at a property: it is cached, then the hook runs, all in
\* one step of the event loop.
thermoUpdate(t, p, x) == updated([t EXCEPT ![p].value = x], p)

\* A thermostat fresh from classification: no value, no bound known.
ThermoInit ==
  th = thermoConstructed(
         [p \in ThermoProps |-> [value |-> Absent, minimum |-> Absent, maximum |-> Absent]])

ThermoReport(p, x) ==
  /\ th' = thermoUpdate(th, p, x)
  /\ UNCHANGED <<classVars, exposeVars>>

(***************************************************************************)
(* ExposeSpec: the zigbee2mqtt expose properties of one device.            *)
(* A value is [k, n, s]: k is "undefined", "bool", "num" or "str".         *)
(***************************************************************************)
\* At most MaxPublished messages are handed to the MQTT client in a run.
MaxPublished == 2

XUndef == [k |-> "undefined", n |-> 0, s |-> ""]
XBool(b) == [k |-> "bool", n |-> IF b THEN 1 ELSE 0, s |-> ""]
XNum(x) == [k |-> "num", n |-> x, s |-> ""]
XStr(str) == [k |-> "str", n |-> 0, s |-> str]

\* Math.round(a / b) for a >= 0, b > 0.
RoundDiv(a, b) == (2 * a + b) \div (2 * b)

WRITE_BIT == 2
READ_BIT == 4

\* Lines 51-53.
isWritable(access) == HasBit(access, WRITE_BIT)

DeviceTopic == "zigbee2mqtt/0x00158d0001"

\* The exposes of the device: the property class compiled for each name and
\* the fields of the expose the class reads.
ExposeNames == {"state", "brightness", "color_temp", "running_state"}

\* The brightness expose of a second endpoint, which declares no maximum.
AllExposes == ExposeNames \cup {"brightness_l2"}

\* has_max: the expose has a value_max.
exposeOf(name) ==
  CASE name = "state" ->
         [class |-> "OnOffProperty", value_min |-> 0, has_max |-> FALSE, value_max |-> 0]
    [] name = "brightness" ->
         [class |-> "BrightnessProperty", value_min |-> 0, has_max |-> TRUE,
          value_max |-> 254]
    [] name = "brightness_l2" ->
         [class |-> "BrightnessProperty", value_min |-> 0, has_max |-> FALSE,
          value_max |-> 0]
    [] name = "color_temp" ->
         [class |-> "ColorTemperatureProperty", value_min |-> 150, has_max |-> TRUE,
          value_max |-> 500]
    [] OTHER ->
         [class |-> "HeatingCoolingProperty", value_min |-> 0, has_max |-> FALSE,
          value_max |-> 0]

\* this.expose.value_max ?? 100 (lines 238 and 243). The mutant always
\* takes 100.
valueMaxMutantHundred(expose) == 100

valueMax(expose) == IF expose.has_max THEN expose.value_max ELSE 100

\* Lines 247-253. The mutant truncates instead of rounding.
miredToKelvin(mired) == RoundDiv(1000000, mired)

kelvinToMireddMutantFloor(kelvin) == 1000000 \div kelvin

kelvinToMiredd(kelvin) == RoundDiv(1000000, kelvin)

HeatingCoolingInputs == {"idle", "heat", "cool"}

\* Lines 376-387; defined on idle, heat and cool, an Error elsewhere. The
\* mutant confuses heat and cool.
convertHeatingCoolingValueMutantSwap(value) ==
  CASE value = "idle" -> "off"
    [] value = "heat" -> "cooling"
    [] OTHER -> "heating"

convertHeatingCoolingValue(value) ==
  CASE value = "idle" -> "off"
    [] value = "heat" -> "heating"
    [] OTHER -> "cooling"

\* The schema each class hands to the Property constructor (lines 68-79 and
\* the additionalProperties of lines 203-207, 227-234, 263-270, 397-402).
schemaOf(name, access) ==
  LET x == exposeOf(name)
  IN [readOnly |-> ~isWritable(access),
      hasRange |-> x.class \in {"BrightnessProperty", "ColorTemperatureProperty"},
      minimum |-> IF x.class = "ColorTemperatureProperty"
                  THEN miredToKelvin(x.value_max) ELSE 0,
      maximum |-> IF x.class = "ColorTemperatureProperty"
                  THEN miredToKelvin(x.value_min) ELSE 100,
      enum |-> IF x.class = "HeatingCoolingProperty"
               THEN {convertHeatingCoolingValue(v) : v \in HeatingCoolingInputs} ELSE {}]

\* Property.setValue of gateway-addon: "" when the value is accepted (and
\* cached), the rejection otherwise.
baseSetValue(schema, value) ==
  IF schema.readOnly THEN "Read-only property"
  ELSE IF schema.hasRange /\ value.n < schema.minimum THEN "Value less than minimum"
  ELSE IF schema.hasRange /\ value.n > schema.maximum THEN "Value greater than maximum"
  ELSE IF schema.enum # {} /\ value.s \notin schema.enum THEN "Invalid enum value"
  ELSE ""

\* The sendValue of each class (lines 214-216, 242-244, 277-279); the
\* run-mode class has none of its own and inherits lines 175-192.
deviceValue(name, value) ==
  LET x == exposeOf(name)
  IN CASE x.class = "OnOffProperty" -> XStr(IF value.n = 1 THEN "ON" ELSE "OFF")
       [] x.class = "BrightnessProperty" -> XNum(RoundDiv(value.n * valueMax(x), 100))
       [] x.class = "ColorTemperatureProperty" -> XNum(kelvinToMiredd(value.n))
       [] OTHER -> value

\* Lines 175-192: the message handed to client.publish.
sendValue(name, written, value) ==
  [topic |-> DeviceTopic \o "/set", key |-> name, payload |-> value, written |-> written]

\* The update of each class (lines 210-212, 237-240, 273-275, 405-407):
\* the value to cache, or thrown.
updateValue(name, value) ==
  LET x == exposeOf(name)
  IN CASE x.class = "OnOffProperty" ->
            [thrown |-> FALSE, value |-> XBool(value = XStr("ON"))]
       [] x.class = "BrightnessProperty" ->
            [thrown |-> FALSE, value |-> XNum(RoundDiv(value.n * 100, valueMax(x)))]
       [] x.class = "ColorTemperatureProperty" ->
            [thrown |-> FALSE, value |-> XNum(miredToKelvin(value.n))]
       [] OTHER ->
            IF value.s \in HeatingCoolingInputs
            THEN [thrown |-> FALSE, value |-> XStr(convertHeatingCoolingValue(value.s))]
            ELSE [thrown |-> TRUE, value |-> XUndef]

\* What the bridge reports and what callers write, per property.
BridgeValues(name) ==
  CASE name = "state" -> {XStr("ON"), XStr("OFF")}
    [] name = "brightness" -> {XNum(127), XNum(254)}
    [] name = "color_temp" -> {XNum(250)}
    [] OTHER -> {XStr("idle"), XStr("heat"), XStr("cool"), XStr("fan_only")}

WriteValues(name) ==
  CASE name = "state" -> {XBool(TRUE), XBool(FALSE)}
    [] name = "brightness" -> {XNum(50), XNum(101)}
    [] name = "color_temp" -> {XNum(4000)}
    [] OTHER -> {XStr("off"), XStr("heating"), XStr("cooling"), XStr("idle")}

NoCall == [state |-> "idle", name |-> "", value |-> XUndef, pubs |-> 0, ack |-> "none",
           err |-> ""]
NoUpdate == [name |-> "", input |-> XUndef, thrown |-> FALSE]

\* The device as compiled from its exposes: nothing cached, every property
\* readable and writable but the run mode, whose access is one of runAccess.
ExposeStart(runAccess) ==
  /\ xp \in {[name \in AllExposes |->
               [value |-> XUndef,
                access |-> IF name = "running_state" THEN a ELSE READ_BIT + WRITE_BIT + 1]] :
             a \in runAccess}
  /\ xcall = NoCall
  /\ xpublished = <<>>
  /\ xupd = NoUpdate

\* update(value): a message of the bridge reaches the property.
XUpdate(name, value) ==
  LET u == updateValue(name, value)
  IN /\ xupd' = [name |-> name, input |-> value, thrown |-> u.thrown]
     /\ xp' = IF u.thrown THEN xp ELSE [xp EXCEPT ![name].value = u.value]
     /\ UNCHANGED <<xcall, xpublished, classVars, thermoVars>>

\* setValue(value) up to the publish: the base class caches or rejects, and
\* sendValue hands the message to the client.
XSetValue(name, value) ==
  LET rejection == baseSetValue(schemaOf(name, xp[name].access), value)
  IN /\ xcall.state # "publishing"
     /\ Len(xpublished) < MaxPublished
     /\ IF rejection # ""
        THEN /\ xcall' = [state |-> "failed", name |-> name, value |-> value,
                          pubs |-> 0, ack |-> "none", err |-> rejection]
             /\ UNCHANGED <<xp, xpublished>>
        ELSE /\ xp' = [xp EXCEPT ![name].value = value]
             /\ xpublished' = Append(xpublished, sendValue(name, value, deviceValue(name, value)))
             /\ xcall' = [state |-> "publishing", name |-> name, value |-> value,
                          pubs |-> 1, ack |-> "none", err |-> ""]
     /\ UNCHANGED <<xupd, classVars, thermoVars>>

\* The callback of client.publish (lines 184-190) and the end of setValue.
\* The mutant publishes again when the client reports an error.
XPublishedMutantRetry(error) ==
  /\ xcall.state = "publishing"
  /\ IF error /\ Len(xpublished) < MaxPublished
     THEN /\ xpublished' = Append(xpublished, xpublished[Len(xpublished)])
          /\ xcall' = [xcall EXCEPT !.pubs = @ + 1]
     ELSE /\ xcall' = IF error
                      THEN [xcall EXCEPT !.state = "failed", !.ack = "error",
                                         !.err = "publish error"]
                      ELSE [xcall EXCEPT !.state = "resolved", !.ack = "ok"]
          /\ UNCHANGED xpublished
  /\ UNCHANGED <<xp, xupd, classVars, thermoVars>>

XPublished(error) ==
  /\ xcall.state = "publishing"
  /\ xcall' = IF error
              THEN [xcall EXCEPT !.state = "failed", !.ack = "error", !.err = "publish error"]
              ELSE [xcall EXCEPT !.state = "resolved", !.ack = "ok"]
  /\ UNCHANGED <<xp, xpublished, xupd, classVars, thermoVars>>

(***************************************************************************)
(* The specifications.                                                     *)
(***************************************************************************)
Init == ClassInit /\ ThermoInit /\ ExposeStart({READ_BIT + WRITE_BIT + 1})

Next ==
  \/ \E f \in AllFeatures : Discover(f)
  \/ Classify
  \/ NextDevice

Spec == Init /\ [][Next]_vars

ThermoNext == \E p \in ThermoProps : \E x \in ThermoReports[p] : ThermoReport(p, x)

ThermoSpec == Init /\ [][ThermoNext]_vars

ExposeInit ==
  ClassInit /\ ThermoInit /\ ExposeStart({READ_BIT + 1, READ_BIT + WRITE_BIT + 1})

ExposeNext ==
  \/ \E name \in ExposeNames : \E value \in BridgeValues(name) : XUpdate(name, value)
  \/ \E name \in ExposeNames : \E value \in WriteValues(name) : XSetValue(name, value)
  \/ \E error \in BOOLEAN : XPublished(error)

ExposeSpec == ExposeInit /\ [][ExposeNext]_vars

(***************************************************************************)
(* RoundTripSpec: the bridge reports a device value of a brightness or     *)
(* color-temperature property, and the value the property then holds is    *)
(* written back to the device.                                             *)
(***************************************************************************)
\* The color temperatures (in mired) the bridge reports.
MinMired == 153
MaxMired == 500
\* A run ends with its MaxRoundTrips-th write-back.
MaxRoundTrips == 1

RoundTripNames == {"brightness", "brightness_l2", "color_temp"}

DeviceReports(name) ==
  IF name = "color_temp" THEN MinMired..MaxMired ELSE 0..valueMax(exposeOf(name))

\* A run exercises one of the properties.
OnlyProperty(name) == \A other \in RoundTripNames \ {name} : xp[other].value = XUndef

\* Reports arrive until the last write-back of the run.
RtReport(name, d) ==
  /\ OnlyProperty(name)
  /\ Len(xpublished) < MaxRoundTrips
  /\ XUpdate(name, XNum(d))

RtWriteBack(name) ==
  /\ OnlyProperty(name)
  /\ xp[name].value # XUndef
  /\ Len(xpublished) < MaxRoundTrips
  /\ XSetValue(name, xp[name].value)

RoundTripNext ==
  \/ \E name \in RoundTripNames : \E d \in DeviceReports(name) : RtReport(name, d)
  \/ \E name \in RoundTripNames : RtWriteBack(name)
  \/ \E error \in BOOLEAN : XPublished(error)

RoundTripSpec == Init /\ [][RoundTripNext]_vars

(***************************************************************************)
(* Properties of the thermostat constraint hooks (ThermoSpec).             *)
(***************************************************************************)
Known(x) == x.k = "num"

\* C1: thermostat bound invariant. After every report and its hook chain,
\* whenever the values of _maxHeatTarget, coolTarget and _deadband are all
\* known, heatTarget.maximum is a number not above
\* min(_maxHeatTarget.value, coolTarget.value - _deadband.value); and
\* whenever the values of _minCoolTarget, heatTarget and _deadband are all
\* known, coolTarget.minimum is a number not below
\* max(_minCoolTarget.value, heatTarget.value + _deadband.value).
C1_ThermostatBounds ==
  /\ (/\ Known(th["_maxHeatTarget"].value)
      /\ Known(th["coolTarget"].value)
      /\ Known(th["_deadband"].value))
     => /\ Known(th["heatTarget"].maximum)
        /\ th["heatTarget"].maximum.v <= th["_maxHeatTarget"].value.v
        /\ th["heatTarget"].maximum.v
             <= th["coolTarget"].value.v - th["_deadband"].value.v
  /\ (/\ Known(th["_minCoolTarget"].value)
      /\ Known(th["heatTarget"].value)
      /\ Known(th["_deadband"].value))
     => /\ Known(th["coolTarget"].minimum)
        /\ th["coolTarget"].minimum.v >= th["_minCoolTarget"].value.v
        /\ th["coolTarget"].minimum.v
             >= th["heatTarget"].value.v + th["_deadband"].value.v

\* Both bounds are in force, each set by the deadband and not by the user
\* limit: 23 - 3 < 21 and 22 + 3 > 24.
C1_Witness ==
  /\ th["_maxHeatTarget"].value = Num(21)
  /\ th["coolTarget"].value = Num(23)
  /\ th["_deadband"].value = Num(3)
  /\ th["heatTarget"].maximum = Num(20)
  /\ th["_minCoolTarget"].value = Num(24)
  /\ th["heatTarget"].value = Num(22)
  /\ th["coolTarget"].minimum = Num(25)

\* The reports of the scenario: absolute heat limits [10, 30], absolute cool
\* limits [15, 35] and deadband 2.
ScenarioLimits ==
  /\ th["_absMinHeatTarget"].value = Num(10)
  /\ th["_absMaxHeatTarget"].value = Num(30)
  /\ th["_absMinCoolTarget"].value = Num(15)
  /\ th["_absMaxCoolTarget"].value = Num(35)
  /\ th["_deadband"].value = Num(2)

\* No user limit has been reported.
NoUserLimits ==
  \A p \in {"_maxHeatTarget", "_minHeatTarget", "_maxCoolTarget", "_minCoolTarget"} :
    ~Own(th[p].value)

\* The user limits have been reported at the absolute limits.
UserLimitsReported ==
  /\ th["_maxHeatTarget"].value = Num(30)
  /\ th["_minCoolTarget"].value = Num(15)

\* C7 (amended): once the absolute limits [10, 30] and [15, 35], deadband 2
\* and the user limits _maxHeatTarget = 30 and _minCoolTarget = 15 have been
\* reported, heat target 20 leaves coolTarget.minimum a number >= 22, and
\* with cool target 25 also reported heatTarget.maximum is a number <= 23.
C7_Propagation ==
  (ScenarioLimits /\ UserLimitsReported /\ th["heatTarget"].value = Num(20))
  => /\ Known(th["coolTarget"].minimum)
     /\ th["coolTarget"].minimum.v >= 22
     /\ th["coolTarget"].value = Num(25)
        => /\ Known(th["heatTarget"].maximum)
           /\ th["heatTarget"].maximum.v <= 23

C7_Witness ==
  /\ ScenarioLimits
  /\ UserLimitsReported
  /\ th["heatTarget"].value = Num(20)
  /\ th["coolTarget"].value = Num(25)
  /\ th["coolTarget"].minimum = Num(22)
  /\ th["heatTarget"].maximum = Num(23)

\* C7 as stated: the absolute limits and the deadband alone (no user limit
\* reported), then heat target 20, give coolTarget.minimum >= 22, and cool
\* target 25 after it gives heatTarget.maximum <= 23.
C7_AsStated ==
  (ScenarioLimits /\ NoUserLimits /\ th["heatTarget"].value = Num(20))
  => /\ Known(th["coolTarget"].minimum)
     /\ th["coolTarget"].minimum.v >= 22
     /\ th["coolTarget"].value = Num(25)
        => /\ Known(th["heatTarget"].maximum)
           /\ th["heatTarget"].maximum.v <= 23

(***************************************************************************)
(* Properties of the classifier (Spec).                                    *)
(***************************************************************************)
\* A device classify has worked on (the coordinator is left alone).
Classified == phase = "classified" /\ ~node.isCoordinator

PropertyNames == DOMAIN node.properties

\* C2: reporting invariant, first half. After classify no property of the
\* device has both fireAndForget and configReportNeeded set.
C2_ReportingInvariant ==
  Classified =>
    \A name \in PropertyNames :
      ~(node.properties[name].fireAndForget /\ node.properties[name].configReportNeeded)

\* The descriptor as discovered: what classify was given.
descriptor == nodeOf(feats)

HasIn(cluster) ==
  \E ep \in Endpoints :
    /\ descriptor.activeEndpoints[ep].exists
    /\ descriptor.activeEndpoints[ep].profileId \in {"0104", "c05e"}
    /\ cluster \in descriptor.activeEndpoints[ep].inputClusters

HasOut(cluster) ==
  \E ep \in Endpoints :
    /\ descriptor.activeEndpoints[ep].exists
    /\ descriptor.activeEndpoints[ep].profileId \in {"0104", "c05e"}
    /\ cluster \in descriptor.activeEndpoints[ep].outputClusters

\* The lowest endpoint with the input cluster.
FirstIn(cluster) ==
  CHOOSE ep \in Endpoints :
    /\ cluster \in descriptor.activeEndpoints[ep].inputClusters
    /\ \A o \in Endpoints :
         cluster \in descriptor.activeEndpoints[o].inputClusters => ep <= o

\* A metering or electrical endpoint carries the device-type code of a light.
LightByDeviceId ==
  \/ HasIn("SEMETERING")
       /\ ZHA_isLight(descriptor.activeEndpoints[FirstIn("SEMETERING")].deviceId)
  \/ HasIn("HAELECTRICAL")
       /\ ZHA_isLight(descriptor.activeEndpoints[FirstIn("HAELECTRICAL")].deviceId)

NotALight ==
  /\ ~HasIn("LIGHTLINK")
  /\ ~\E f \in feats : f.k = "lightingColorCtrlEndpoint"
  /\ ~LightByDeviceId

\* The condition of rule k of the decision list, read off the descriptor.
RuleHolds(k) ==
  CASE k = 1  -> \E f \in feats : f.k = "zoneType"
    [] k = 2  -> HasIn("OCCUPANCY_SENSOR")
    [] k = 3  -> HasIn("HVACTHERMOSTAT")
    [] k = 4  -> HasIn("SEMETERING") /\ HasIn("GENLEVELCTRL")
    [] k = 5  -> HasIn("HAELECTRICAL") /\ NotALight
    [] k = 6  -> HasIn("SEMETERING") /\ NotALight
    [] k = 7  -> HasIn("GENLEVELCTRL")
    [] k = 8  -> HasIn("GENONOFF")
    [] k = 9  -> HasOut("GENLEVELCTRL") /\ HasOut("GENONOFF")
    [] k = 10 -> HasOut("GENONOFF")
    [] k = 11 -> HasIn("DOORLOCK")
    [] OTHER  -> HasIn("GENBINARYINPUT")

Rules == 1..12

InitializerOf(k) ==
  CASE k = 1  -> "initBinarySensorFromZoneType"
    [] k = 2  -> "initOccupancySensor"
    [] k = 3  -> "initThermostat"
    [] k = 4  -> "initLightingPowerMetering"
    [] k = 5  -> "initHaSmartPlug"
    [] k = 6  -> "initSeSmartPlug"
    [] k = 7  -> "initMultiLevelSwitch"
    [] k = 8  -> "initOnOffSwitches"
    [] k = 9  -> "initMultiLevelButtons"
    [] k = 10 -> "initOnOffButtons"
    [] k = 11 -> "initDoorLock"
    [] OTHER  -> "initBinarySensor"

SomeRuleHolds == \E k \in Rules : RuleHolds(k)
FirstRule == CHOOSE k \in Rules : RuleHolds(k) /\ \A j \in 1..(k - 1) : ~RuleHolds(j)

\* The two places where an initializer hands the device to the initializer
\* of a later rule (lines 2248-2254 and 2361-2364).
DelegatedTo(init) ==
  \/ /\ init = "initOnOffSwitches"
     /\ FirstRule = 7
     /\ HasIn("LIGHTLINK")
     /\ descriptor.activeEndpoints[FirstIn("LIGHTLINK")].deviceId = ZLL_ON_OFF_SWITCH
  \/ /\ init = "initOnOffButtons"
     /\ FirstRule = 9
     /\ includesMotion(descriptor.modelId)

\* C3 (amended): the initializer classifyInternal calls is that of the first
\* rule, in the order 1..12, whose condition holds on the descriptor, and
\* none is called when no rule holds; the initializer of a later rule runs
\* only when the called one hands over to it: initMultiLevelSwitch to
\* initOnOffSwitches for a light-link endpoint with device id 0010, and
\* initMultiLevelButtons to initOnOffButtons for a model id with 'motion'.
C3_FirstMatchWins ==
  Classified =>
    IF ~SomeRuleHolds THEN node.inits = <<>>
    ELSE /\ Len(node.inits) \in {1, 2}
         /\ node.inits[1] = InitializerOf(FirstRule)
         /\ Len(node.inits) = 2 <=> \E init \in {"initOnOffSwitches", "initOnOffButtons"} :
                                      DelegatedTo(init)
         /\ Len(node.inits) = 2 => DelegatedTo(node.inits[2])

\* A descriptor on which three rules hold (3, 7 and 8): only the first ran.
C3_Witness ==
  /\ Classified
  /\ RuleHolds(3) /\ RuleHolds(7) /\ RuleHolds(8)
  /\ FirstRule = 3
  /\ node.inits = <<"initThermostat">>

\* C3 as stated: exactly the initializer of the first rule that holds runs,
\* and no initializer of a later rule.
C3_AsStated ==
  Classified =>
    node.inits = IF SomeRuleHolds THEN <<InitializerOf(FirstRule)>> ELSE <<>>

\* C4: rule precedence. A descriptor with both a thermostat and a
\* level-control input cluster, and neither a zone type nor an occupancy
\* cluster, is classified with type 'thermostat' and tags ['Thermostat'], and
\* initThermostat is the only initializer that runs.
C4_ThermostatBeatsLevel ==
  (Classified /\ RuleHolds(3) /\ RuleHolds(7) /\ ~RuleHolds(1) /\ ~RuleHolds(2))
  => /\ node.type = "thermostat"
     /\ Tags = <<"Thermostat">>
     /\ node.inits = <<"initThermostat">>

\* Thermostat and level control on the same endpoint, with its properties.
C4_Witness ==
  /\ Classified
  /\ "HVACTHERMOSTAT" \in descriptor.activeEndpoints[1].inputClusters
  /\ "GENLEVELCTRL" \in descriptor.activeEndpoints[1].inputClusters
  /\ ~RuleHolds(1) /\ ~RuleHolds(2)
  /\ node.type = "thermostat"
  /\ "heatTarget" \in PropertyNames
  /\ "level" \notin PropertyNames

ButtonHelpers == {"addButtonOnProperty", "addButtonLevelProperty", "addButtonMotionProperty"}

\* C5 (amended): after classification bindNeeded equals configReportNeeded
\* for every property except those made by addButtonOnProperty,
\* addButtonLevelProperty and addButtonMotionProperty, which ask for a
\* binding (bindNeeded = true) although no report configuration is pushed
\* (configReportNeeded = false).
C5_BindingFlag ==
  Classified =>
    \A name \in PropertyNames :
      LET property == node.properties[name]
      IN IF property.maker \in ButtonHelpers
         THEN property.bindNeeded /\ ~property.configReportNeeded
         ELSE property.bindNeeded = property.configReportNeeded

\* A remote with the button, level-button and scene properties.
C5_Witness ==
  /\ Classified
  /\ {"on", "level", "scene"} \subseteq PropertyNames
  /\ node.properties["on"].maker = "addButtonOnProperty"
  /\ node.properties["level"].maker = "addButtonLevelProperty"
  /\ node.properties["scene"].maker = "addButtonSceneProperty"

\* C5 as stated: bindNeeded equals configReportNeeded for every property.
C5_AsStated ==
  Classified =>
    \A name \in PropertyNames :
      node.properties[name].bindNeeded = node.properties[name].configReportNeeded

\* What a classification yields: the type, the tag list and the properties.
Outcome(n) == [type |-> n.type, tags |-> tagsOf(n), properties |-> n.properties]

\* C6: determinism. Whatever devices were classified before, the outcome of
\* classifying a descriptor is the outcome the same descriptor has with a
\* classifier fresh from start-up.
C6_Determinism ==
  Classified => Outcome(node) = Outcome(classify(newNode(feats, ZoneTagsInit)))

(***************************************************************************)
(* Properties of the expose write and update paths (ExposeSpec).           *)
(***************************************************************************)
LastPublished == xpublished[Len(xpublished)]

\* The device value the write path owes for the writes of the on/off,
\* brightness (maximum 254) and colour-temperature properties.
ExpectedPayload(name, value) ==
  CASE name = "state" /\ value = XBool(TRUE)  -> XStr("ON")
    [] name = "state" /\ value = XBool(FALSE) -> XStr("OFF")
    [] name = "brightness" /\ value = XNum(50) -> XNum(127)
    [] name = "color_temp" /\ value = XNum(4000) -> XNum(250)
    [] OTHER -> LastPublished.payload

RunModeUpdate(input) ==
  /\ xupd' # xupd
  /\ xupd'.name = "running_state"
  /\ xupd'.input = XStr(input)

\* C9: run-mode update. An update of the run-mode property carrying 'idle',
\* 'heat' or 'cool' caches 'off', 'heating' or 'cooling'; an update carrying
\* anything else throws and leaves every cached value as it was.
C9_RunModeUpdate ==
  [][/\ RunModeUpdate("idle") =>
          ~xupd'.thrown /\ xp'["running_state"].value = XStr("off")
     /\ RunModeUpdate("heat") =>
          ~xupd'.thrown /\ xp'["running_state"].value = XStr("heating")
     /\ RunModeUpdate("cool") =>
          ~xupd'.thrown /\ xp'["running_state"].value = XStr("cooling")
     /\ \A input \in {"fan_only"} :
          RunModeUpdate(input) => xupd'.thrown /\ xp' = xp]_vars

\* An unknown run mode was refused while values were cached: they stay.
C9_Witness ==
  /\ xupd = [name |-> "running_state", input |-> XStr("fan_only"), thrown |-> TRUE]
  /\ xp["running_state"].value = XStr("heating")
  /\ xp["state"].value = XBool(TRUE)

\* The device value of a run-mode property value.
RunModeDeviceValue(value) ==
  CASE value = "off" -> "idle"
    [] value = "heating" -> "heat"
    [] value = "cooling" -> "cool"
    [] OTHER -> value

\* C10: run-mode transcoding is bidirectional. Every message published for a
\* write of 'off', 'heating' or 'cooling' to the run-mode property carries
\* 'idle', 'heat' or 'cool'.
C10_RunModeWrite ==
  \A i \in 1..Len(xpublished) :
    xpublished[i].key = "running_state" =>
      xpublished[i].payload = XStr(RunModeDeviceValue(xpublished[i].written.s))

(***************************************************************************)
(* Properties of the classifier, continued (Spec).                         *)
(***************************************************************************)
\* Bit 7 (0x80) of the power source: the battery backup.
BatteryBackupBit(powerSource) == (powerSource \div 128) % 2 = 1

\* C11: power-configuration post-processing. For a classified device with a
\* power-configuration cluster, 'mainsVoltage' is there iff the device is
\* mains-powered, 'batteryVoltage' iff it is battery-powered or bit 7 of the
\* power source is set or the model id is in the exception list, and
\* 'batteryPercentageRemaining' iff it is battery-powered.
C11_PowerCfg ==
  (Classified /\ ~node.raised /\ HasIn("GENPOWERCFG")) =>
    /\ "mainsVoltage" \in PropertyNames <=> isMainsPowered(descriptor)
    /\ "batteryVoltage" \in PropertyNames
         <=> \/ isBatteryPowered(descriptor)
             \/ BatteryBackupBit(descriptor.powerSource)
             \/ hasBattery(descriptor.modelId)
    /\ "batteryPercentageRemaining" \in PropertyNames <=> isBatteryPowered(descriptor)

\* The persisted snapshots of the descriptor.
Snapshots == descriptor.devInfoProperties

\* The four binding fields of a property and of a snapshot are the same.
BindingMatches(property, devInfo) ==
  /\ property.endpoint = devInfo.endpoint
  /\ property.profileId = devInfo.profileId
  /\ property.clusterId = devInfo.clusterId
  /\ property.attr = devInfo.attr

\* The properties the same descriptor gets when nothing was persisted.
WithoutSnapshots ==
  classify(newNode({f \in feats : f.k # "devInfo"}, ZoneTagsInit)).properties

C13_DescriptorReadOnly ==
  Classified =>
    /\ node.activeEndpoints = descriptor.activeEndpoints
    /\ node.modelId = descriptor.modelId
    /\ node.hasZoneType = descriptor.hasZoneType
    /\ node.zoneType = descriptor.zoneType
    /\ node.hasColorCapabilities = descriptor.hasColorCapabilities
    /\ node.colorCapabilities = descriptor.colorCapabilities
    /\ node.powerSource = descriptor.powerSource

\* The endpoints initMultiLevelSwitch is called with, and the device-type
\* codes it reads from them.
LevelEndpoint == findZhaEndpointWithInputClusterIdHex(descriptor, "GENLEVELCTRL")
LinkEndpoint == findZhaEndpointWithInputClusterIdHex(descriptor, "LIGHTLINK")
RemoteCode == IF LinkEndpoint # 0 THEN descriptor.activeEndpoints[LinkEndpoint].deviceId ELSE ""
LocalCode == descriptor.activeEndpoints[LevelEndpoint].deviceId
RemoteLight == LinkEndpoint # 0 /\ ZLL_isLight(RemoteCode)
LocalLight ==
  /\ descriptor.activeEndpoints[LevelEndpoint].profileId = "0104"
  /\ ZHA_isLight(LocalCode)
RemoteColor == RemoteLight /\ ZLL_isColorLight(RemoteCode)
LocalColor == LocalLight /\ ZHA_isColorLight(LocalCode)
MarkedTemperature ==
  \/ RemoteLight /\ ZLL_isColorTemperatureLight(RemoteCode)
  \/ LocalLight /\ ZHA_isColorTemperatureLight(LocalCode)

\* Rule 7 has classified a light (by device-type code) that has no
\* color-capability bitmask.
LightWithoutBitmask ==
  /\ Classified
  /\ ~node.raised
  /\ SomeRuleHolds
  /\ FirstRule = 7
  /\ ~DelegatedTo("initOnOffSwitches")
  /\ ~descriptor.hasColorCapabilities
  /\ (RemoteLight \/ LocalLight)

HueSaturationColor ==
  /\ "color" \in PropertyNames
  /\ node.properties["color"].attr = "currentHue,currentSaturation"

LightProperties == PropertyNames \cap {"color", "colorTemperature", "level"}

Unmatched == Classified /\ ~SomeRuleHolds

\* The properties the post-processing of classifyInternal adds for a
\* descriptor without thermostat cluster (lines 2109-2124).
TemperatureWarranted ==
  IF HasIn("TEMPERATURE") THEN {"_minTemp", "_maxTemp", "temperature"}
  ELSE IF HasIn("GENDEVICETEMPCFG") THEN {"temperature"}
  ELSE {}
IlluminanceWarranted ==
  IF HasIn("ILLUMINANCE_MEASUREMENT")
  THEN {"_minIlluminance", "_maxIlluminance", "illuminance"} ELSE {}
PowerCfgWarranted ==
  IF HasIn("GENPOWERCFG")
  THEN (IF isMainsPowered(descriptor) THEN {"mainsVoltage"} ELSE {})
       \cup (IF \/ isBatteryPowered(descriptor)
                \/ descriptor.powerSource % 2 = 1
                \/ hasBattery(descriptor.modelId)
             THEN {"batteryVoltage"} ELSE {})
       \cup (IF isBatteryPowered(descriptor) THEN {"batteryPercentageRemaining"} ELSE {})
  ELSE {}
LastSeenWarranted == IF descriptor.showAging THEN {"lastSeen"} ELSE {}

EffectiveZoneType ==
  IF descriptor.zoneType = 0 /\ descriptor.modelId = "multiv4" THEN ZONE_TYPE_SWITCH
  ELSE IF descriptor.zoneType = 0 /\ descriptor.modelId \in {"motionv4", "motionv5"}
  THEN ZONE_TYPE_MOTION
  ELSE descriptor.zoneType

\* The tags of the device, leaving aside the tag the post-processing adds
\* for a temperature cluster.
InitializerTags == SelectSeq(Tags, LAMBDA t : t # "TemperatureSensor")

PrimaryBoolean(name, atType) ==
  /\ name \in PropertyNames
  /\ node.properties[name].type = "boolean"
  /\ node.properties[name].atType = atType
  /\ node.properties[name].mask = "ALARM_MASK"

OnlyOnOffInput ==
  /\ Classified
  /\ {f \in feats : f.k \in {"in", "out"}} = {Feature("in", 1, "GENONOFF", 0)}
  /\ ~descriptor.hasZoneType
  /\ ~descriptor.hasColorCapabilities
  /\ descriptor.lightingColorCtrlEndpoint = 0

VisibleBooleans ==
  {name \in PropertyNames :
     node.properties[name].visible /\ node.properties[name].type = "boolean"}

OnOffSwitchOutcome ==
  /\ ~node.raised
  /\ node.type = "switch"
  /\ Tags = <<"OnOffSwitch">>
  /\ VisibleBooleans = {"on"}
  /\ ~node.properties["on"].fireAndForget
  /\ node.properties["on"].configReportNeeded

\* Endpoint 1 is a home-automation endpoint whose device-type code is not
\* that of the smart relay, and no state was persisted for the device.
PlainEndpoint ==
  /\ descriptor.activeEndpoints[1].profileId = "0104"
  /\ descriptor.activeEndpoints[1].deviceId # "000b"
  /\ DOMAIN descriptor.devInfoProperties = {}

\* C17 (amended): a descriptor whose only cluster is the on/off input
\* cluster of endpoint 1, on a home-automation endpoint with a device-type
\* code other than '000b' and without persisted state, is classified with
\* type 'switch', tags ['OnOffSwitch'] and exactly one visible boolean
\* property, 'on', which is not fireAndForget and needs a reporting
\* configuration.
C17_OnOffScenario == (OnlyOnOffInput /\ PlainEndpoint) => OnOffSwitchOutcome

C17_Witness ==
  /\ OnlyOnOffInput
  /\ PlainEndpoint
  /\ "on" \in PropertyNames
  /\ node.properties["on"].visible
  /\ node.properties["on"].configReportNeeded

\* C17 as stated: whatever the profile, the device-type code and the
\* persisted state of the descriptor.
C17_AsStated == OnlyOnOffInput => OnOffSwitchOutcome

\* C18: after classify of any descriptor, every property that is not
\* fireAndForget has a non-empty attribute path and a reporting
\* configuration; that is, a property with an empty attribute path or
\* without reporting configuration is fireAndForget.
C18_ReportingSecondHalf ==
  Classified =>
    \A name \in PropertyNames :
      /\ ~node.properties[name].fireAndForget
           => /\ node.properties[name].attr # ""
              /\ node.properties[name].configReport # ""
      /\ (node.properties[name].attr = "" \/ node.properties[name].configReport = "")
           => node.properties[name].fireAndForget

C18_Witness ==
  /\ Classified
  /\ \E name \in PropertyNames :
       ~node.properties[name].fireAndForget /\ node.properties[name].attr # ""
  /\ \E name \in PropertyNames :
       node.properties[name].attr = "" /\ node.properties[name].fireAndForget
  /\ "lastSeen" \in PropertyNames

(***************************************************************************)
(* Properties of the value transcoders (RoundTripSpec).                    *)
(***************************************************************************)
Abs(x) == IF x < 0 THEN 0 - x ELSE x

\* p is Math.round(a / b): the integer with p <= a/b + 1/2 < p + 1.
IsRound(p, a, b) == 2 * p * b <= 2 * a + b /\ 2 * a + b < 2 * (p + 1) * b

\* The last report of the bridge was a device value of the property.
Reported(name) == xupd.name = name /\ ~xupd.thrown

\* The value the property holds has been written back to the device.
WrittenBack(name) ==
  /\ Reported(name)
  /\ xpublished # <<>>
  /\ LastPublished.key = name
  /\ LastPublished.written = xp[name].value

\* C19: with a declared maximum of 254, a device value d in 0..254 is
\* reported as the percentage round(100 * d / 254), which lies in 0..100,
\* and writing that percentage back publishes round(254 * percentage / 100),
\* a device value within 1 of d; 254 gives 100 percent and comes back as
\* 254. Without a declared maximum 100 is the maximum in both directions:
\* the percentage is the device value and the device value the percentage.
C19_BrightnessRoundTrip ==
  /\ Reported("brightness") =>
       /\ xp["brightness"].value.k = "num"
       /\ xp["brightness"].value.n \in 0..100
       /\ IsRound(xp["brightness"].value.n, 100 * xupd.input.n, 254)
       /\ xupd.input.n = 254 => xp["brightness"].value.n = 100
  /\ WrittenBack("brightness") =>
       /\ IsRound(LastPublished.payload.n, 254 * LastPublished.written.n, 100)
       /\ Abs(LastPublished.payload.n - xupd.input.n) <= 1
       /\ xupd.input.n = 254 => LastPublished.payload.n = 254
  /\ Reported("brightness_l2") => xp["brightness_l2"].value = xupd.input
  /\ WrittenBack("brightness_l2") => LastPublished.payload = LastPublished.written

C19_Witness ==
  /\ WrittenBack("brightness")
  /\ xupd.input.n = 254
  /\ LastPublished.written.n = 100
  /\ LastPublished.payload.n = 254
  /\ xcall.state = "resolved"

\* C20: a reported color temperature of m mired is held as
\* round(1000000 / m) Kelvin, and writing k Kelvin publishes
\* round(1000000 / k) mired; for every m in 153..500 the value written back
\* is within 1 mired of m; 370 mired is 2703 Kelvin and comes back as 370.
C20_ColorTemperatureRoundTrip ==
  /\ Reported("color_temp") =>
       /\ xp["color_temp"].value.k = "num"
       /\ IsRound(xp["color_temp"].value.n, 1000000, xupd.input.n)
       /\ xupd.input.n = 370 => xp["color_temp"].value.n = 2703
  /\ WrittenBack("color_temp") =>
       /\ IsRound(LastPublished.payload.n, 1000000, LastPublished.written.n)
       /\ Abs(LastPublished.payload.n - xupd.input.n) <= 1
       /\ xupd.input.n = 370 => LastPublished.payload.n = 370

C20_Witness ==
  /\ WrittenBack("color_temp")
  /\ xupd.input.n = 370
  /\ LastPublished.written.n = 2703
  /\ LastPublished.payload.n = 370
  /\ xcall.state = "resolved"

(***************************************************************************)
(* Further properties of the classifier (Spec).                            *)
(***************************************************************************)
\* C21: after classification a property is invisible iff its name starts
\* with the private prefix '_'; every other property, the last-seen
\* property included, is visible.
C21_Visibility ==
  Classified =>
    \A name \in PropertyNames :
      ~node.properties[name].visible <=> startsWithUnderscore(name)

C21_Witness ==
  /\ Classified
  /\ "lastSeen" \in PropertyNames
  /\ node.properties["lastSeen"].visible
  /\ \E name \in PropertyNames : ~node.properties[name].visible

\* C25: isolation between devices. No step of the classifier changes the
\* zone-type table that later classifications consult, nor, through it, the
\* tag list of a device classified earlier, which is an array of that table
\* when the device was typed by its zone type.
C25_Isolation == [][zoneTags' = zoneTags]_vars

\* C26: classify returns without raising an error for every non-coordinator
\* descriptor, so no classification ends with the type assigned and the
\* property set partly built.
C26_Completes == Classified => ~node.raised

\* The 'temperature' property is there and reads the attribute of the cluster.
TemperatureBound(clusterId, attr) ==
  /\ "temperature" \in PropertyNames
  /\ node.properties["temperature"].clusterId = clusterId
  /\ node.properties["temperature"].attr = attr

ByThermostat == SeqIncludes(node.inits, "initThermostat")

FirstWriteFailed ==
  /\ xcall.state = "failed"
  /\ xcall.ack = "error"
  /\ Len(xpublished) = 1
  /\ xupd = NoUpdate

\* C29: a failed write leaves the cache untouched. When the publish of a
\* setValue call reports an error, the cached value of the property, and of
\* every other property, is what it was before the call: here, none.
C29_FailedWrite == FirstWriteFailed => \A name \in AllExposes : xp[name].value = XUndef

(***************************************************************************)
(* Further properties of the thermostat constraint hooks (ThermoSpec).     *)
(***************************************************************************)
\* The recomputation of a bound is put off: the user limit has not been
\* reported, or exactly one of the other target and the deadband has.
HeatMaximumDeferred(t) ==
  \/ ~Own(t["_maxHeatTarget"].value)
  \/ Own(t["coolTarget"].value) # Own(t["_deadband"].value)
CoolMinimumDeferred(t) ==
  \/ ~Own(t["_minCoolTarget"].value)
  \/ Own(t["heatTarget"].value) # Own(t["_deadband"].value)

\* Some operand of the bound is unknown (absent or null).
HeatOperandUnknown(t) ==
  \E p \in {"_maxHeatTarget", "coolTarget", "_deadband"} : ~Known(t[p].value)
CoolOperandUnknown(t) ==
  \E p \in {"_minCoolTarget", "heatTarget", "_deadband"} : ~Known(t[p].value)

HeatOperandsKnown(t) ==
  \A p \in {"_maxHeatTarget", "coolTarget", "_deadband"} : Known(t[p].value)
CoolOperandsKnown(t) ==
  \A p \in {"_minCoolTarget", "heatTarget", "_deadband"} : Known(t[p].value)

HeatMaximumOwed(t) ==
  IF t["_maxHeatTarget"].value.v <= t["coolTarget"].value.v - t["_deadband"].value.v
  THEN t["_maxHeatTarget"].value
  ELSE Num(t["coolTarget"].value.v - t["_deadband"].value.v)
CoolMinimumOwed(t) ==
  IF t["_minCoolTarget"].value.v >= t["heatTarget"].value.v + t["_deadband"].value.v
  THEN t["_minCoolTarget"].value
  ELSE Num(t["heatTarget"].value.v + t["_deadband"].value.v)

\* C23: whichever of _maxHeatTarget, coolTarget and _deadband is the last
\* to become known, right after the report that makes it known
\* heatTarget.maximum is min(_maxHeatTarget.value, coolTarget.value -
\* _deadband.value); and right after the last of _minCoolTarget, heatTarget
\* and _deadband becomes known, coolTarget.minimum is
\* max(_minCoolTarget.value, heatTarget.value + _deadband.value).
C23_RerunOnArrival ==
  [][/\ (~HeatOperandsKnown(th) /\ HeatOperandsKnown(th'))
          => th'["heatTarget"].maximum = HeatMaximumOwed(th')
     /\ (~CoolOperandsKnown(th) /\ CoolOperandsKnown(th'))
          => th'["coolTarget"].minimum = CoolMinimumOwed(th')]_vars

\* All six operands have arrived, and both bounds come from the deadband.
C23_Witness ==
  /\ HeatOperandsKnown(th)
  /\ CoolOperandsKnown(th)
  /\ th["_deadband"].value = Num(2)
  /\ th["coolTarget"].value = Num(25)
  /\ th["heatTarget"].value = Num(20)
  /\ th["heatTarget"].maximum = Num(23)
  /\ th["coolTarget"].minimum = Num(22)

\* The longest chain of calls an updated hook starts: the hook, a
\* recomputation, a bound setter.
ChainDepth == 3

RECURSIVE HookLevel(_, _)
\* The calls made at depth n below hook h.
HookLevel(h, n) ==
  IF n = 0 THEN {h} ELSE UNION {HookCallees(g) : g \in HookLevel(h, n - 1)}

HookReach(h) == UNION {HookLevel(h, n) : n \in 1..ChainDepth}

\* The calls below each updated hook.
UpdatedReach == [p \in ThermoProps |-> HookReach(<<p, "updated">>)]

Hooks ==
  {<<p, "updated">> : p \in ThermoProps}
  \cup {<<"heatTarget", "updateMaximum">>, <<"coolTarget", "updateMinimum">>}

\* The report of a value to property p is what the step did, and every
\* bound it changed was set by a call its updated hook reaches.
ChainOf(p) ==
  /\ \E x \in ThermoReports[p] : th' = thermoUpdate(th, p, x)
  /\ \A q \in ThermoProps :
       /\ th'[q].minimum # th[q].minimum => <<q, "setMinimum">> \in UpdatedReach[p]
       /\ th'[q].maximum # th[q].maximum => <<q, "setMaximum">> \in UpdatedReach[p]

\* The call graph is finite below ChainDepth and free of cycles.
ChainsEnd == \A h \in Hooks : HookLevel(h, ChainDepth) = {} /\ h \notin HookReach(h)

C27_BoundsConsistent ==
  /\ (Known(th["heatTarget"].minimum) /\ Known(th["heatTarget"].maximum))
       => th["heatTarget"].minimum.v <= th["heatTarget"].maximum.v
  /\ (Known(th["coolTarget"].minimum) /\ Known(th["coolTarget"].maximum))
       => th["coolTarget"].minimum.v <= th["coolTarget"].maximum.v

\* The four bounds of the two targets.
TargetBounds(t) ==
  <<t["heatTarget"].minimum, t["heatTarget"].maximum,
    t["coolTarget"].minimum, t["coolTarget"].maximum>>

\* Two reports to different properties leave the same bounds in either order.
Commute(t, p, q) ==
  \A x \in ThermoReports[p] : \A y \in ThermoReports[q] :
    TargetBounds(thermoUpdate(thermoUpdate(t, p, x), q, y))
      = TargetBounds(thermoUpdate(thermoUpdate(t, q, y), p, x))

====
